---- MODULE Spec2Model ----
(***************************************************************************)
(* Model of the Lie-group variable algebra of fact.rs (VectorVar, SO3,     *)
(* SE3) and of the Variable trait's retraction operators.                  *)
(*                                                                         *)
(* dtype (f64) is modelled as signed decimal fixed point with 16           *)
(* fractional digits; magnitudes are little-endian limb sequences.         *)
(***************************************************************************)
EXTENDS Integers, Sequences, FiniteSets, TLC

(***************************************************************************)
(* Natural numbers of arbitrary size: little-endian limbs, no high zeros.  *)
(***************************************************************************)
Base == 100 * 100

FracLimbs == 2 + 2

\* TRUE. Its evaluation computes v at this point of an operator's body rather
\* than at v's first use, which keeps the nesting of evaluations shallow.
Strict(v) == v = v

\* Drop the high zero limbs
RECURSIVE NatTrim(_)
NatTrim(s) ==
    IF s = <<>> \/ s[Len(s)] # 0 THEN s ELSE NatTrim(SubSeq(s, 1, Len(s) - 1))

NatLimb(a, i) == IF i >= 1 /\ i <= Len(a) THEN a[i] ELSE 0

NatMax2(m, n) == IF m >= n THEN m ELSE n

NatMin2(m, n) == IF m <= n THEN m ELSE n

\* Limbs of any machine size to limbs below Base, from limb i with carry c
RECURSIVE NatCarry(_, _, _, _)
NatCarry(s, i, c, acc) ==
    IF Strict(acc) /\ i > Len(s) /\ c = 0 THEN acc
    ELSE NatCarry(s, i + 1, (NatLimb(s, i) + c) \div Base,
                  Append(acc, (NatLimb(s, i) + c) % Base))

NatNorm(s) == NatTrim(NatCarry(s, 1, 0, <<>>))

RECURSIVE NatAddFrom(_, _, _, _, _)
NatAddFrom(a, b, i, c, acc) ==
    IF Strict(acc) /\ i > Len(a) /\ i > Len(b) /\ c = 0 THEN acc
    ELSE NatAddFrom(a, b, i + 1, (NatLimb(a, i) + NatLimb(b, i) + c) \div Base,
                    Append(acc, (NatLimb(a, i) + NatLimb(b, i) + c) % Base))

NatAdd(a, b) == NatAddFrom(a, b, 1, 0, <<>>)

\* a - b, for a >= b; br is the borrow into limb i
RECURSIVE NatSubFrom(_, _, _, _, _)
NatSubFrom(a, b, i, br, acc) ==
    IF Strict(acc) /\ i > Len(a) THEN acc
    ELSE NatSubFrom(a, b, i + 1, IF a[i] - NatLimb(b, i) - br < 0 THEN 1 ELSE 0,
                    Append(acc, (a[i] - NatLimb(b, i) - br) % Base))

NatSub(a, b) == NatTrim(NatSubFrom(a, b, 1, 0, <<>>))

RECURSIVE NatCmpAt(_, _, _)
NatCmpAt(a, b, i) ==
    IF i = 0 THEN 0
    ELSE IF a[i] # b[i] THEN (IF a[i] < b[i] THEN -1 ELSE 1)
    ELSE NatCmpAt(a, b, i - 1)

\* -1, 0, 1 as a < b, a = b, a > b
NatCmp(a, b) ==
    IF Len(a) # Len(b) THEN (IF Len(a) < Len(b) THEN -1 ELSE 1)
    ELSE NatCmpAt(a, b, Len(a))

\* a * k for a machine integer 0 <= k < 20 * Base
RECURSIVE NatMulSmallFrom(_, _, _, _, _)
NatMulSmallFrom(a, k, i, c, acc) ==
    IF Strict(acc) /\ i > Len(a) /\ c = 0 THEN acc
    ELSE NatMulSmallFrom(a, k, i + 1, (NatLimb(a, i) * k + c) \div Base,
                         Append(acc, (NatLimb(a, i) * k + c) % Base))

NatMulSmall(a, k) == IF k = 0 THEN <<>> ELSE NatMulSmallFrom(a, k, 1, 0, <<>>)

\* The k-th limb of a * b before carries: a[i] * b[k + 1 - i] summed from i to hi
RECURSIVE NatConvSum(_, _, _, _, _)
NatConvSum(a, b, k, i, hi) ==
    IF i > hi THEN 0 ELSE a[i] * b[k + 1 - i] + NatConvSum(a, b, k, i + 1, hi)

NatConv(a, b) ==
    [k \in 1..(Len(a) + Len(b) - 1) |->
        NatConvSum(a, b, k, NatMax2(1, k + 1 - Len(b)), NatMin2(Len(a), k))] \o <<>>

NatMul(a, b) == IF a = <<>> \/ b = <<>> THEN <<>> ELSE NatNorm(NatConv(a, b))

NatFromInt(n) == NatNorm(<<n>>)

NatZeros(k) == [i \in 1..k |-> 0] \o <<>>

NatShiftUp(a, k) == IF a = <<>> THEN a ELSE NatZeros(k) \o a

NatShiftDown(a, k) == IF Len(a) <= k THEN <<>> ELSE SubSeq(a, k + 1, Len(a))

\* floor(a / n) for a machine integer 0 < n < 20 * Base, from the top limb
RECURSIVE NatDivSmallFrom(_, _, _, _, _)
NatDivSmallFrom(a, n, i, rem, acc) ==
    IF Strict(acc) /\ i = 0 THEN acc
    ELSE NatDivSmallFrom(a, n, i - 1, (rem * Base + a[i]) % n,
                         <<(rem * Base + a[i]) \div n>> \o acc)

NatDivSmall(a, n) == NatTrim(NatDivSmallFrom(a, n, Len(a), 0, <<>>))

\* Quotient limb q of r by d with its product p = d * q: for d's top limb at
\* least Base \div 2 and r < d * Base, the estimate from the top limbs is at
\* most 2 too large. Returns the remainder with q appended as its last limb.
RECURSIVE NatQFix(_, _, _, _)
NatQFix(r, d, q, p) ==
    IF NatCmp(p, r) > 0 THEN NatQFix(r, d, q - 1, NatSub(p, d))
    ELSE <<NatSub(r, p), q>>

NatQEst(r, d) ==
    NatMin2(Base - 1, (NatLimb(r, Len(d) + 1) * Base + NatLimb(r, Len(d))) \div d[Len(d)])

NatQTry(r, d, q) == NatQFix(r, d, q, NatMulSmall(d, q))

NatQLimb(r, d) == IF Len(r) < Len(d) THEN <<r, 0>> ELSE NatQTry(r, d, NatQEst(r, d))

\* Long division from the top limb of n: r is the running remainder, q the
\* quotient limbs found so far; returns the quotient.
RECURSIVE NatDivStep(_, _, _, _, _)
RECURSIVE NatDivTake(_, _, _, _, _)
NatDivStep(n, d, i, r, q) ==
    IF Strict(r) /\ Strict(q) /\ i = 0 THEN q
    ELSE NatDivTake(n, d, i, q, NatQLimb(NatTrim(<<n[i]>> \o r), d))

NatDivTake(n, d, i, q, rq) == NatDivStep(n, d, i - 1, rq[1], <<rq[2]>> \o q)

NatDivNormed(nn, dd) ==
    IF Strict(nn) /\ Strict(dd)
    THEN NatTrim(NatDivStep(nn, dd, Len(nn), <<>>, <<>>))
    ELSE <<>>

NatDivBy(n, d, f) == NatDivNormed(NatMulSmall(n, f), NatMulSmall(d, f))

\* floor(n / d), d # 0
NatDiv(n, d) ==
    IF Len(d) = 1 THEN NatDivSmall(n, d[1])
    ELSE NatDivBy(n, d, Base \div (d[Len(d)] + 1))

RECURSIVE IntSqrtIter(_, _)
IntSqrtIter(n, r) ==
    IF (r + n \div r) \div 2 >= r THEN r ELSE IntSqrtIter(n, (r + n \div r) \div 2)

\* floor(sqrt(n)) of a machine integer
IntSqrt(n) == IF n = 0 THEN 0 ELSE IntSqrtIter(n, n)

RECURSIVE NatSqrtIter(_, _)
RECURSIVE NatSqrtNext(_, _, _)
NatSqrtIter(n, r) == NatSqrtNext(n, r, NatDivSmall(NatAdd(r, NatDiv(n, r)), 2))

NatSqrtNext(n, r, y) == IF NatCmp(y, r) >= 0 THEN r ELSE NatSqrtIter(n, y)

NatSqrtTop(n) ==
    IF Len(n) % 2 = 0 THEN n[Len(n)] * Base + n[Len(n) - 1] ELSE n[Len(n)]

\* floor(sqrt(n)): Newton's iteration from a guess above the root
NatSqrt(n) ==
    IF n = <<>> THEN n
    ELSE NatSqrtIter(n, NatShiftUp(NatFromInt(IntSqrt(NatSqrtTop(n)) + 1),
                                   (Len(n) - 1) \div 2))

(***************************************************************************)
(* dtype: signed fixed point, value = (+/-) mag / Base^FracLimbs.          *)
(* Products, quotients and roots are truncated towards zero.               *)
(***************************************************************************)
FixMk(neg, mag) == [neg |-> neg /\ mag # <<>>, mag |-> mag]

FZero == FixMk(FALSE, <<>>)

FFromInt(n) ==
    FixMk(n < 0, NatShiftUp(NatFromInt(IF n < 0 THEN -n ELSE n), FracLimbs))

FOne == FFromInt(1)

FNeg(a) == FixMk(~a.neg, a.mag)

FAbs(a) == FixMk(FALSE, a.mag)

FAdd(a, b) ==
    IF a.neg = b.neg THEN FixMk(a.neg, NatAdd(a.mag, b.mag))
    ELSE LET c == NatCmp(a.mag, b.mag)
         IN  IF c = 0 THEN FZero
             ELSE IF c > 0 THEN FixMk(a.neg, NatSub(a.mag, b.mag))
             ELSE FixMk(b.neg, NatSub(b.mag, a.mag))

FSub(a, b) == FAdd(a, FNeg(b))

FMul(a, b) == FixMk(a.neg # b.neg, NatShiftDown(NatMul(a.mag, b.mag), FracLimbs))

FDiv(a, b) == FixMk(a.neg # b.neg, NatDiv(NatShiftUp(a.mag, FracLimbs), b.mag))

\* a / n for a machine integer n > 0
FDivInt(a, n) == FixMk(a.neg, NatDivSmall(a.mag, n))

FMulInt(a, n) == FixMk(a.neg # (n < 0), NatMulSmall(a.mag, IF n < 0 THEN -n ELSE n))

\* the literal p / q
FRat(p, q) == FDiv(FFromInt(p), FFromInt(q))

\* -1, 0, 1 as a < b, a = b, a > b
FCmp(a, b) ==
    IF a.neg # b.neg THEN (IF a.neg THEN -1 ELSE 1)
    ELSE IF a.neg THEN NatCmp(b.mag, a.mag) ELSE NatCmp(a.mag, b.mag)

FLt(a, b) == FCmp(a, b) < 0

FLe(a, b) == FCmp(a, b) <= 0

\* f64::sqrt of a non-negative number
FSqrt(a) == FixMk(FALSE, NatSqrt(NatShiftUp(a.mag, FracLimbs)))

\* Alternating power series: sum + t1 + t2 + ..., t(j) = -t(j-1) * x2 / (k (k+1)),
\* k stepping by 2, until the term underflows.
RECURSIVE FTaylor(_, _, _, _)
RECURSIVE FTaylorAdd(_, _, _, _)
FTaylor(sum, term, x2, k) ==
    IF Strict(sum) /\ term.mag = <<>> THEN sum
    ELSE FTaylorAdd(sum, FNeg(FDivInt(FMul(term, x2), k * (k + 1))), x2, k)

FTaylorAdd(sum, t, x2, k) == FTaylor(FAdd(sum, t), t, x2, k + 2)

\* f64::sin
FSin(a) == FTaylor(a, a, FMul(a, a), 2)

\* f64::cos
FCos(a) == FTaylor(FOne, FOne, FMul(a, a), 1)

FPi == FixMk(FALSE, <<7932, 3589, 9265, 1415, 3>>)

FHalfPi == FixMk(FALSE, <<8966, 6794, 9632, 5707, 1>>)

\* Gregory series t - t^3/3 + t^5/5 - ... ; pw = last power, k = its exponent
RECURSIVE FAtanSeries(_, _, _, _)
RECURSIVE FAtanSeriesAdd(_, _, _, _)
FAtanSeries(sum, pw, t2, k) == FAtanSeriesAdd(sum, FNeg(FMul(pw, t2)), t2, k)

FAtanSeriesAdd(sum, p, t2, k) ==
    IF Strict(sum) /\ p.mag = <<>> THEN sum
    ELSE FAtanSeries(FAdd(sum, FDivInt(p, k + 2)), p, t2, k + 2)

FAtanSmall(u) == IF Strict(u) THEN FAtanSeries(u, u, FMul(u, u), 1) ELSE FZero

\* atan(k / 8), k = 1..8
FAtanTable ==
    << FixMk(FALSE, <<7614, 4546, 5499, 1243>>), FixMk(FALSE, <<8642, 3126, 7866, 2449>>),
       FixMk(FALSE, <<5722, 270, 7067, 3587>>), FixMk(FALSE, <<8061, 9000, 4760, 4636>>),
       FixMk(FALSE, <<5624, 5343, 9931, 5585>>), FixMk(FALSE, <<2844, 8793, 110, 6435>>),
       FixMk(FALSE, <<6245, 9621, 2999, 7188>>), FixMk(FALSE, <<4483, 3397, 9816, 7853>>) >>

\* atan(t) = atan(c) + atan((t - c) / (1 + t c))
FAtanAbout(t, c, ac) == FAdd(ac, FAtanSmall(FDiv(FSub(t, c), FAdd(FOne, FMul(t, c)))))

FAtanNear(t, k) ==
    IF k = 0 THEN FAtanSmall(t) ELSE FAtanAbout(t, FDivInt(FFromInt(k), 8), FAtanTable[k])

\* atan(t) for 0 <= t <= 1, about the nearest k / 8
FAtanUnit(t) == FAtanNear(t, (NatLimb(NatMulSmall(t.mag, 16), FracLimbs + 1) + 1) \div 2)

\* atan2 of magnitudes ay, ax >= 0, not both zero: an angle in [0, pi/2]
FAtanQuad(ay, ax) ==
    IF ay = FZero THEN FZero
    ELSE IF FLe(ay, ax) THEN FAtanUnit(FDiv(ay, ax))
    ELSE FSub(FHalfPi, FAtanUnit(FDiv(ax, ay)))

FAtanSigned(y, x, a) ==
    IF Strict(a)
    THEN (IF y.neg THEN FNeg(IF x.neg THEN FSub(FPi, a) ELSE a)
          ELSE IF x.neg THEN FSub(FPi, a) ELSE a)
    ELSE FZero

\* f64::atan2(y, x)
FAtan2(y, x) == FAtanSigned(y, x, FAtanQuad(FAbs(y), FAbs(x)))

(***************************************************************************)
(* Numeric: a dtype, or a dual number over dtype with a derivative vector. *)
(* re is the value; eps is the derivative, <<>> when there is none.        *)
(***************************************************************************)
Real(f) == [re |-> f, eps |-> <<>>]

\* T::from of a decimal literal p / q
Lit(p, q) == Real(FRat(p, q))

DerivScale(e, c) == [i \in 1..Len(e) |-> FMul(e[i], c)] \o <<>>

DerivAdd(e1, e2) ==
    IF e1 = <<>> THEN e2
    ELSE IF e2 = <<>> THEN e1
    ELSE [i \in 1..Len(e1) |-> FAdd(e1[i], e2[i])] \o <<>>

DerivNeg(e) == [i \in 1..Len(e) |-> FNeg(e[i])] \o <<>>

NumZero == Real(FZero)

NumOne == Real(FOne)

NumNeg(a) == [re |-> FNeg(a.re), eps |-> DerivNeg(a.eps)]

NumAdd(a, b) == [re |-> FAdd(a.re, b.re), eps |-> DerivAdd(a.eps, b.eps)]

NumSub(a, b) == [re |-> FSub(a.re, b.re), eps |-> DerivAdd(a.eps, DerivNeg(b.eps))]

NumMul(a, b) ==
    [re |-> FMul(a.re, b.re),
     eps |-> DerivAdd(DerivScale(a.eps, b.re), DerivScale(b.eps, a.re))]

NumDiv(a, b) ==
    [re |-> FDiv(a.re, b.re),
     eps |-> DerivAdd(DerivScale(a.eps, FDiv(FOne, b.re)),
                      DerivScale(b.eps, FNeg(FDiv(a.re, FMul(b.re, b.re)))))]

NumSqrt(a) ==
    [re |-> FSqrt(a.re),
     eps |-> DerivScale(a.eps, FDiv(FOne, FMulInt(FSqrt(a.re), 2)))]

NumSin(a) == [re |-> FSin(a.re), eps |-> DerivScale(a.eps, FCos(a.re))]

NumCos(a) == [re |-> FCos(a.re), eps |-> DerivScale(a.eps, FNeg(FSin(a.re)))]

\* y.atan2(x)
NumAtan2(y, x) ==
    [re |-> FAtan2(y.re, x.re),
     eps |-> DerivAdd(
                DerivScale(y.eps, FDiv(x.re, FAdd(FMul(x.re, x.re), FMul(y.re, y.re)))),
                DerivScale(x.eps, FNeg(FDiv(y.re, FAdd(FMul(x.re, x.re),
                                                        FMul(y.re, y.re))))))]

\* a < b compares the values
NumLt(a, b) == FLt(a.re, b.re)

\* f64::is_sign_positive; the model has no negative zero
NumIsSignPositive(a) == ~a.re.neg

(***************************************************************************)
(* Vectors are sequences of Numeric, matrices sequences of rows.           *)
(***************************************************************************)
VecZeros(n) == [i \in 1..n |-> NumZero] \o <<>>

VecAdd(a, b) == [i \in 1..Len(a) |-> NumAdd(a[i], b[i])] \o <<>>

VecSub(a, b) == [i \in 1..Len(a) |-> NumSub(a[i], b[i])] \o <<>>

VecNeg(a) == [i \in 1..Len(a) |-> NumNeg(a[i])] \o <<>>

VecScale(a, c) == [i \in 1..Len(a) |-> NumMul(a[i], c)] \o <<>>

VecDiv(a, c) == [i \in 1..Len(a) |-> NumDiv(a[i], c)] \o <<>>

\* a[1] * b[1] + ... + a[n] * b[n], summed from the first term
RECURSIVE DotTo(_, _, _)
DotTo(a, b, n) ==
    IF n = 1 THEN NumMul(a[1], b[1])
    ELSE NumAdd(DotTo(a, b, n - 1), NumMul(a[n], b[n]))

Dot(a, b) == IF a = <<>> THEN NumZero ELSE DotTo(a, b, Len(a))

norm_squared(a) == Dot(a, a)

MatCol(m, j) == [i \in 1..Len(m) |-> m[i][j]] \o <<>>

MatZeros(r, c) == [i \in 1..r |-> VecZeros(c)] \o <<>>

MatIdentity(n) ==
    [i \in 1..n |-> [j \in 1..n |-> IF i = j THEN NumOne ELSE NumZero] \o <<>>] \o <<>>

MatAdd(a, b) == [i \in 1..Len(a) |-> VecAdd(a[i], b[i])] \o <<>>

MatNeg(a) == [i \in 1..Len(a) |-> VecNeg(a[i])] \o <<>>

MatScale(a, c) == [i \in 1..Len(a) |-> VecScale(a[i], c)] \o <<>>

MatVec(m, v) == [i \in 1..Len(m) |-> Dot(m[i], v)] \o <<>>

MatMul(a, b) ==
    [i \in 1..Len(a) |-> [j \in 1..Len(b[1]) |-> Dot(a[i], MatCol(b, j))] \o <<>>] \o <<>>

\* rows r..(r + 2), columns c..(c + 2) of m
MatBlock3(m, r, c) == [i \in 1..3 |-> SubSeq(m[r + i - 1], c, c + 2)] \o <<>>

\* Matrix3::try_inverse: the adjugate over the determinant, none when the
\* determinant is zero
Mat3Minor(m, r1, c1, r2, c2) ==
    NumSub(NumMul(m[r1][c1], m[r2][c2]), NumMul(m[r2][c1], m[r1][c2]))

Mat3Det(m) ==
    NumAdd(NumSub(NumMul(m[1][1], Mat3Minor(m, 2, 2, 3, 3)),
                  NumMul(m[1][2], Mat3Minor(m, 2, 1, 3, 3))),
           NumMul(m[1][3], Mat3Minor(m, 2, 1, 3, 2)))

\* entry (i, j) of the adjugate: the cofactor of entry (j, i); the rows and
\* columns other than j and i are taken in cyclic order, which carries the sign
Mat3Adj(m, i, j) ==
    Mat3Minor(m, (j % 3) + 1, (i % 3) + 1, ((j + 1) % 3) + 1, ((i + 1) % 3) + 1)

Mat3InverseBy(m, det) ==
    IF det.re = FZero THEN [some |-> FALSE, val |-> <<>>]
    ELSE [some |-> TRUE,
          val |-> [i \in 1..3 |->
                      [j \in 1..3 |-> NumDiv(Mat3Adj(m, i, j), det)] \o <<>>] \o <<>>]

try_inverse(m) == Mat3InverseBy(m, Mat3Det(m))

(***************************************************************************)
(* SO3: a quaternion stored as xyzw.                                       *)
(***************************************************************************)
SmallAngleSO3 == Lit(1, 1000000)

SO3_from_vec(xyzw) == [xyzw |-> xyzw]

SO3_from_xyzw(x, y, z, w) == [xyzw |-> <<x, y, z, w>>]

SO3_x(q) == q.xyzw[1]

SO3_y(q) == q.xyzw[2]

SO3_z(q) == q.xyzw[3]

SO3_w(q) == q.xyzw[4]

SO3_identity == [xyzw |-> <<NumZero, NumZero, NumZero, NumOne>>]

SO3_inverse(q) ==
    [xyzw |-> <<NumNeg(q.xyzw[1]), NumNeg(q.xyzw[2]), NumNeg(q.xyzw[3]), q.xyzw[4]>>]

\* t1 + t2 + t3 + t4, added left to right
Sum4(t1, t2, t3, t4) == NumAdd(NumAdd(NumAdd(t1, t2), t3), t4)

\* Mutant: the second component adds x0 * z1 where the product subtracts it
SO3_compose_terms_sign(x0, y0, z0, w0, x1, y1, z1, w1) ==
    [xyzw |->
        << Sum4(NumMul(w0, x1), NumMul(x0, w1), NumMul(y0, z1), NumNeg(NumMul(z0, y1))),
           Sum4(NumMul(w0, y1), NumMul(x0, z1), NumMul(y0, w1), NumMul(z0, x1)),
           Sum4(NumMul(w0, z1), NumMul(x0, y1), NumNeg(NumMul(y0, x1)), NumMul(z0, w1)),
           Sum4(NumMul(w0, w1), NumNeg(NumMul(x0, x1)), NumNeg(NumMul(y0, y1)),
                NumNeg(NumMul(z0, z1))) >>]

SO3_compose_terms(x0, y0, z0, w0, x1, y1, z1, w1) ==
    [xyzw |->
        << Sum4(NumMul(w0, x1), NumMul(x0, w1), NumMul(y0, z1), NumNeg(NumMul(z0, y1))),
           Sum4(NumMul(w0, y1), NumNeg(NumMul(x0, z1)), NumMul(y0, w1), NumMul(z0, x1)),
           Sum4(NumMul(w0, z1), NumMul(x0, y1), NumNeg(NumMul(y0, x1)), NumMul(z0, w1)),
           Sum4(NumMul(w0, w1), NumNeg(NumMul(x0, x1)), NumNeg(NumMul(y0, y1)),
                NumNeg(NumMul(z0, z1))) >>]

\* Mutant: the product in the other order, other * self
SO3_compose_swapped(self, other) ==
    SO3_compose_terms(other.xyzw[1], other.xyzw[2], other.xyzw[3], other.xyzw[4],
                      self.xyzw[1], self.xyzw[2], self.xyzw[3], self.xyzw[4])

SO3_compose(self, other) ==
    SO3_compose_terms(self.xyzw[1], self.xyzw[2], self.xyzw[3], self.xyzw[4],
                      other.xyzw[1], other.xyzw[2], other.xyzw[3], other.xyzw[4])

NumHalf == Lit(1, 2)

NumTwo == Lit(2, 1)

SO3_exp_small(xi, theta2) ==
    [xyzw |-> << NumMul(xi[1], NumHalf), NumMul(xi[2], NumHalf), NumMul(xi[3], NumHalf),
                 NumSub(NumOne, NumDiv(theta2, Lit(8, 1))) >>]

SO3_exp_scaled(omega, w, sin_theta_half) ==
    [xyzw |-> << NumMul(omega[1], sin_theta_half), NumMul(omega[2], sin_theta_half),
                 NumMul(omega[3], sin_theta_half), w >>]

SO3_exp_unit(omega, w) ==
    SO3_exp_scaled(omega, w, NumSqrt(NumSub(NumOne, NumMul(w, w))))

SO3_exp_large(xi, theta) == SO3_exp_unit(VecDiv(xi, theta), NumCos(NumMul(theta, NumHalf)))

SO3_exp_of(xi, theta2) ==
    IF NumLt(theta2, SmallAngleSO3) THEN SO3_exp_small(xi, theta2)
    ELSE SO3_exp_large(xi, NumSqrt(theta2))

SO3_exp(xi) == SO3_exp_of(xi, norm_squared(xi))

\* Mutant: the sign of w is not taken
SO3_log_sign_positive(w) == NumOne

SO3_log_sign(w) == IF NumIsSignPositive(w) THEN NumOne ELSE NumNeg(NumOne)

SO3_log_atan(sign, norm_v, w) ==
    NumDiv(NumMul(NumMul(sign, NumAtan2(norm_v, NumMul(sign, w))), NumTwo), norm_v)

SO3_log_scale(norm_v2, w) ==
    IF NumLt(norm_v2, SmallAngleSO3)
    THEN NumSub(NumDiv(NumTwo, w),
                NumDiv(NumMul(Lit(2, 3), norm_v2), NumMul(NumMul(w, w), w)))
    ELSE SO3_log_atan(SO3_log_sign(w), NumSqrt(norm_v2), w)

SO3_log_of(xi, w) == VecScale(xi, SO3_log_scale(norm_squared(xi), w))

SO3_log(self) == SO3_log_of(SubSeq(self.xyzw, 1, 3), self.xyzw[4])

\* dtype to a dual number: the value, with no derivative
NumCast(a) == [re |-> a.re, eps |-> <<>>]

VecCast(a) == [i \in 1..Len(a) |-> NumCast(a[i])] \o <<>>

SO3_cast(self) == [xyzw |-> VecCast(self.xyzw)]

\* A dual number of value re whose derivative is d in direction i of n
NumSeed(re, n, i, d) == [re |-> re, eps |-> [k \in 1..n |-> IF k = i THEN d ELSE FZero] \o <<>>]

\* idx counts from 0, as in the source
\* Mutant: the derivatives of x, y, z are 1 and not 1/2
SO3_dual_exp_unit_eps(n, idx) ==
    SO3_from_xyzw(NumSeed(FZero, n, idx + 1, FOne), NumSeed(FZero, n, idx + 2, FOne),
                  NumSeed(FZero, n, idx + 3, FOne), Real(FOne))

SO3_dual_exp(n, idx) ==
    SO3_from_xyzw(NumSeed(FZero, n, idx + 1, FRat(1, 2)), NumSeed(FZero, n, idx + 2, FRat(1, 2)),
                  NumSeed(FZero, n, idx + 3, FRat(1, 2)), Real(FOne))

SO3_adjoint_of(q0, q1, q2, q3) ==
    << << NumSub(NumOne, NumMul(NumAdd(NumMul(q2, q2), NumMul(q3, q3)), NumTwo)),
          NumMul(NumSub(NumMul(q1, q2), NumMul(q0, q3)), NumTwo),
          NumMul(NumAdd(NumMul(q1, q3), NumMul(q0, q2)), NumTwo) >>,
       << NumMul(NumAdd(NumMul(q1, q2), NumMul(q0, q3)), NumTwo),
          NumSub(NumOne, NumMul(NumAdd(NumMul(q1, q1), NumMul(q3, q3)), NumTwo)),
          NumMul(NumSub(NumMul(q2, q3), NumMul(q0, q1)), NumTwo) >>,
       << NumMul(NumSub(NumMul(q1, q3), NumMul(q0, q2)), NumTwo),
          NumMul(NumAdd(NumMul(q2, q3), NumMul(q0, q1)), NumTwo),
          NumSub(NumOne, NumMul(NumAdd(NumMul(q1, q1), NumMul(q2, q2)), NumTwo)) >> >>

\* Mutant: the scalar part read from the first slot of xyzw
SO3_adjoint_wxyz(self) ==
    SO3_adjoint_of(self.xyzw[1], self.xyzw[2], self.xyzw[3], self.xyzw[4])

SO3_adjoint(self) ==
    SO3_adjoint_of(self.xyzw[4], self.xyzw[1], self.xyzw[2], self.xyzw[3])

SO3_hat(xi) ==
    << <<NumZero, NumNeg(xi[3]), xi[2]>>,
       <<xi[3], NumZero, NumNeg(xi[1])>>,
       <<NumNeg(xi[2]), xi[1], NumZero>> >>

\* Mutant: the entries above the diagonal are read for x and z, below for y
SO3_vee_transposed(xi) == <<xi[2][3], xi[3][1], xi[1][2]>>

SO3_vee(xi) == <<xi[3][2], xi[1][3], xi[2][1]>>

SO3_hat_swap(xi) == MatNeg(SO3_hat(xi))

SO3_to_matrix_of(q0, q1, q2, q3) ==
    << << NumSub(NumOne, NumMul(NumAdd(NumMul(q2, q2), NumMul(q3, q3)), NumTwo)),
          NumMul(NumSub(NumMul(q1, q2), NumMul(q0, q3)), NumTwo),
          NumMul(NumAdd(NumMul(q1, q3), NumMul(q0, q2)), NumTwo) >>,
       << NumMul(NumAdd(NumMul(q1, q2), NumMul(q0, q3)), NumTwo),
          NumSub(NumOne, NumMul(NumAdd(NumMul(q1, q1), NumMul(q3, q3)), NumTwo)),
          NumMul(NumSub(NumMul(q2, q3), NumMul(q0, q1)), NumTwo) >>,
       << NumMul(NumSub(NumMul(q1, q3), NumMul(q0, q2)), NumTwo),
          NumMul(NumAdd(NumMul(q2, q3), NumMul(q0, q1)), NumTwo),
          NumSub(NumOne, NumMul(NumAdd(NumMul(q1, q1), NumMul(q2, q2)), NumTwo)) >> >>

SO3_to_matrix(self) ==
    SO3_to_matrix_of(self.xyzw[4], self.xyzw[1], self.xyzw[2], self.xyzw[3])

\* trace > 0: s = 0.5 / sqrt(trace + 1)
SO3_from_matrix_w(mat, s) ==
    [xyzw |-> << NumMul(NumSub(mat[3][2], mat[2][3]), s),
                 NumMul(NumSub(mat[1][3], mat[3][1]), s),
                 NumMul(NumSub(mat[2][1], mat[1][2]), s),
                 NumDiv(Lit(1, 4), s) >>]

\* the largest diagonal entry is mat[a][a]; b, c are the next axes in cyclic
\* order; s = 2 * sqrt(1 + mat[a][a] - mat[b][b] - mat[c][c])
SO3_from_matrix_axis(mat, a, b, c, s) ==
    [xyzw |-> [i \in 1..4 |->
        IF i = 4 THEN NumDiv(NumSub(mat[c][b], mat[b][c]), s)
        ELSE IF i = a THEN NumMul(s, Lit(1, 4))
        ELSE NumDiv(NumAdd(mat[a][i], mat[i][a]), s)] \o <<>>]

SO3_from_matrix_s(mat, a, b, c) ==
    NumMul(NumTwo, NumSqrt(NumSub(NumSub(NumAdd(NumOne, mat[a][a]), mat[b][b]), mat[c][c])))

SO3_from_matrix_tr(mat, trace) ==
    IF NumLt(NumZero, trace)
    THEN SO3_from_matrix_w(mat, NumDiv(NumHalf, NumSqrt(NumAdd(trace, NumOne))))
    ELSE IF NumLt(mat[2][2], mat[1][1]) /\ NumLt(mat[3][3], mat[1][1])
    THEN SO3_from_matrix_axis(mat, 1, 2, 3, SO3_from_matrix_s(mat, 1, 2, 3))
    ELSE IF NumLt(mat[3][3], mat[2][2])
    THEN SO3_from_matrix_axis(mat, 2, 3, 1, SO3_from_matrix_s(mat, 2, 1, 3))
    ELSE SO3_from_matrix_axis(mat, 3, 1, 2, SO3_from_matrix_s(mat, 3, 1, 2))

SO3_from_matrix(mat) ==
    SO3_from_matrix_tr(mat, NumAdd(NumAdd(mat[1][1], mat[2][2]), mat[3][3]))

SO3_apply_rot(v_rot) == SubSeq(v_rot.xyzw, 1, 3)

\* Mutant: the conjugation by the inverse, X^-1 * (v, 0) * X
SO3_apply_inverse(self, v) ==
    SO3_apply_rot(SO3_compose(SO3_compose(SO3_inverse(self),
                                          SO3_from_xyzw(v[1], v[2], v[3], NumZero)), self))

SO3_apply(self, v) ==
    SO3_apply_rot(SO3_compose(SO3_compose(self, SO3_from_xyzw(v[1], v[2], v[3], NumZero)),
                              SO3_inverse(self)))

(***************************************************************************)
(* SE3: a rotation rot and a translation xyz.                              *)
(***************************************************************************)
SmallAngleSE3 == Lit(1, 100000)

SE3_to_matrix_of(r, xyz) ==
    << r[1] \o <<xyz[1]>>, r[2] \o <<xyz[2]>>, r[3] \o <<xyz[3]>>,
       <<NumZero, NumZero, NumZero, NumOne>> >>

SE3_to_matrix(self) == SE3_to_matrix_of(SO3_to_matrix(self.rot), self.xyz)

SE3_from_matrix(mat) ==
    [rot |-> SO3_from_matrix(MatBlock3(mat, 1, 1)), xyz |-> <<mat[1][4], mat[2][4], mat[3][4]>>]

SE3_apply(self, v) == VecAdd(SO3_apply(self.rot, v), self.xyz)

SE3_identity == [rot |-> SO3_identity, xyz |-> VecZeros(3)]

\* Mutant: the translation of the other operand is not rotated
SE3_compose_unrotated(self, other) ==
    [rot |-> SO3_compose(self.rot, other.rot), xyz |-> VecAdd(other.xyz, self.xyz)]

SE3_compose(self, other) ==
    [rot |-> SO3_compose(self.rot, other.rot),
     xyz |-> VecAdd(SO3_apply(self.rot, other.xyz), self.xyz)]

SE3_inverse_of(self, inv) == [rot |-> inv, xyz |-> VecNeg(SO3_apply(inv, self.xyz))]

SE3_inverse(self) == SE3_inverse_of(self, SO3_inverse(self.rot))

\* <<B, C>> from A = sin(w) / w
SE3_BC_of(w, w2, A) ==
    <<NumDiv(NumSub(NumOne, NumCos(w)), w2), NumDiv(NumSub(NumOne, A), w2)>>

SE3_BC_large(w, w2) == SE3_BC_of(w, w2, NumDiv(NumSin(w), w))

SE3_BC(w2) ==
    IF NumLt(w2, SmallAngleSE3) THEN <<NumHalf, Lit(1, 6)>>
    ELSE SE3_BC_large(NumSqrt(w2), w2)

SE3_V_of(wx, BC) ==
    MatAdd(MatAdd(MatIdentity(3), MatScale(wx, BC[1])), MatScale(MatMul(wx, wx), BC[2]))

\* V = I + wx * B + wx * wx * C for the rotation part xi_rot
SE3_V(xi_rot) == SE3_V_of(SO3_hat(xi_rot), SE3_BC(norm_squared(xi_rot)))

\* Mutant: translation first, xi[0..2] read as the translation
SE3_exp_translation_first(xi) ==
    [rot |-> SO3_exp(SubSeq(xi, 4, 6)),
     xyz |-> MatVec(SE3_V(SubSeq(xi, 4, 6)), <<xi[1], xi[2], xi[3]>>)]

SE3_exp(xi) ==
    [rot |-> SO3_exp(SubSeq(xi, 1, 3)),
     xyz |-> MatVec(SE3_V(SubSeq(xi, 1, 3)), <<xi[4], xi[5], xi[6]>>)]

\* expect("V is not invertible") aborts when there is no inverse
SE3_log_xyz(Vinv, xyz) == IF Vinv.some THEN MatVec(Vinv.val, xyz) ELSE <<"panic">>

SE3_log_of(xi_theta, xyz) ==
    xi_theta \o SE3_log_xyz(try_inverse(SE3_V(xi_theta)), xyz)

SE3_log(self) == SE3_log_of(SO3_log(self.rot), self.xyz)

SE3_hat(xi) ==
    << <<NumZero, NumNeg(xi[3]), xi[2], xi[4]>>,
       <<xi[3], NumZero, NumNeg(xi[1]), xi[5]>>,
       <<NumNeg(xi[2]), xi[1], NumZero, xi[6]>>,
       <<NumZero, NumZero, NumZero, NumZero>> >>

SE3_adjoint_of(r_mat, t_r_mat) ==
    [i \in 1..6 |->
        IF i <= 3 THEN r_mat[i] \o VecZeros(3) ELSE t_r_mat[i - 3] \o r_mat[i - 3]] \o <<>>

SE3_adjoint_rot(xyz, r_mat) == SE3_adjoint_of(r_mat, MatMul(SO3_hat(xyz), r_mat))

SE3_adjoint(self) == SE3_adjoint_rot(self.xyz, SO3_to_matrix(self.rot))

(***************************************************************************)
(* VectorVar<N>: a vector under addition.                                  *)
(***************************************************************************)
VectorVar_identity(N) == VecZeros(N)

VectorVar_inverse(self) == VecNeg(self)

VectorVar_compose(self, other) == VecAdd(self, other)

VectorVar_exp(delta) == [i \in 1..Len(delta) |-> delta[i]] \o <<>>

VectorVar_log(self) == [i \in 1..Len(self) |-> self[i]] \o <<>>

VectorVar_cast(self) == VecCast(self)

\* Mutant: the offset idx is not added
VectorVar_dual_exp_no_offset(N, n, idx) ==
    [i \in 1..N |-> NumSeed(FZero, n, i, FOne)] \o <<>>

\* idx counts from 0, as in the source
VectorVar_dual_exp(N, n, idx) ==
    [i \in 1..N |-> NumSeed(FZero, n, idx + i, FOne)] \o <<>>

(***************************************************************************)
(* The program state: the build's retraction feature, the variable type    *)
(* under use, its operands, and the last operation with its result.        *)
(***************************************************************************)
VARIABLES
    left,   \* cfg!(feature = "left") of the build
    T,      \* the variable type: "VectorVar", "SO3" or "SE3"
    X,      \* self
    Y,      \* the other operand
    xi,     \* a tangent vector
    v,      \* a point of R^3
    op,     \* the operation last applied, "init" before any
    out,    \* its result
    steps,  \* the number of operations applied so far
    kinds,  \* the types of the variables of a function under differentiation
    seeds   \* the tangent seeds given to its variables so far

vars == <<left, T, X, Y, xi, v, op, out, steps, kinds, seeds>>

\* the state of the differentiation of a function
seeding == <<kinds, seeds>>

(***************************************************************************)
(* trait Variable, dispatched on the implementing type T.                  *)
(***************************************************************************)
Types == {"VectorVar", "SO3", "SE3"}

\* VectorVar<3> is the vector type of the model
VectorN == 3

DIM(t) == CASE t = "SO3" -> 3 [] t = "SE3" -> 6 [] OTHER -> VectorN

identity(t) ==
    CASE t = "SO3" -> SO3_identity
      [] t = "SE3" -> SE3_identity
      [] OTHER -> VectorVar_identity(VectorN)

inverse(t, self) ==
    CASE t = "SO3" -> SO3_inverse(self)
      [] t = "SE3" -> SE3_inverse(self)
      [] OTHER -> VectorVar_inverse(self)

compose(t, self, other) ==
    CASE t = "SO3" -> SO3_compose(self, other)
      [] t = "SE3" -> SE3_compose(self, other)
      [] OTHER -> VectorVar_compose(self, other)

exp(t, delta) ==
    CASE t = "SO3" -> SO3_exp(delta)
      [] t = "SE3" -> SE3_exp(delta)
      [] OTHER -> VectorVar_exp(delta)

log(t, self) ==
    CASE t = "SO3" -> SO3_log(self)
      [] t = "SE3" -> SE3_log(self)
      [] OTHER -> VectorVar_log(self)

SE3_dual_self(self) == [rot |-> SO3_cast(self.rot), xyz |-> VecCast(self.xyz)]

cast(t, self) ==
    CASE t = "SO3" -> SO3_cast(self)
      [] t = "SE3" -> SE3_dual_self(self)
      [] OTHER -> VectorVar_cast(self)

\* Mutant: the tangent is applied on the left
oplus_right_on_left(t, self, delta) == compose(t, exp(t, delta), self)

oplus_right(t, self, delta) == compose(t, self, exp(t, delta))

oplus_left(t, self, delta) == compose(t, exp(t, delta), self)

oplus(t, self, delta) ==
    IF left THEN oplus_left(t, self, delta) ELSE oplus_right(t, self, delta)

ominus_right(t, self, y) == log(t, compose(t, inverse(t, y), self))

ominus_left(t, self, y) == log(t, compose(t, self, inverse(t, y)))

ominus(t, self, y) ==
    IF left THEN ominus_left(t, self, y) ELSE ominus_right(t, self, y)

minus(t, self, other) == compose(t, inverse(t, other), self)

\* the trait's default dual_exp: exp of the tangent vector of unit derivatives
\* Mutant: the tangent seed has the value 1 and not 0
Variable_dual_tv_unit_value(t, n, idx) ==
    [i \in 1..DIM(t) |-> NumSeed(FOne, n, idx + i, FOne)] \o <<>>

Variable_dual_tv(t, n, idx) ==
    [i \in 1..DIM(t) |-> NumSeed(FZero, n, idx + i, FOne)] \o <<>>

Variable_dual_exp(t, n, idx) == exp(t, Variable_dual_tv(t, n, idx))

dual_exp(t, n, idx) ==
    CASE t = "SO3" -> SO3_dual_exp(n, idx)
      [] t = "VectorVar" -> VectorVar_dual_exp(VectorN, n, idx)
      [] OTHER -> Variable_dual_exp(t, n, idx)

\* Mutant: the seeding composes on the side the build does not use
dual_other_side(t, self, n, idx) ==
    IF left THEN compose(t, cast(t, self), dual_exp(t, n, idx))
    ELSE compose(t, dual_exp(t, n, idx), cast(t, self))

dual(t, self, n, idx) ==
    IF left THEN compose(t, dual_exp(t, n, idx), cast(t, self))
    ELSE compose(t, cast(t, self), dual_exp(t, n, idx))

\* trait MatrixLieGroup, for SO3 and SE3
adjoint(t, self) == IF t = "SO3" THEN SO3_adjoint(self) ELSE SE3_adjoint(self)

hat(t, delta) == IF t = "SO3" THEN SO3_hat(delta) ELSE SE3_hat(delta)

to_matrix(t, self) == IF t = "SO3" THEN SO3_to_matrix(self) ELSE SE3_to_matrix(self)

apply(t, self, p) == IF t = "SO3" THEN SO3_apply(self, p) ELSE SE3_apply(self, p)

(***************************************************************************)
(* Operands: elements whose components are short decimals, so that sums    *)
(* and products of a few of them are exact in dtype.                       *)
(***************************************************************************)
MaxElem == 3

MaxPoint == 2

SO3Samples ==
    << SO3_from_xyzw(Lit(6, 10), NumZero, NumZero, Lit(8, 10)),
       SO3_from_xyzw(Lit(1, 2), Lit(1, 2), Lit(1, 2), Lit(1, 2)),
       SO3_from_xyzw(NumZero, Lit(8, 10), NumZero, Lit(-6, 10)),
       SO3_from_xyzw(Lit(1, 10), Lit(7, 10), Lit(-1, 10), Lit(7, 10)),
       SO3_from_xyzw(NumZero, NumZero, NumOne, NumZero),
       SO3_identity >>

\* a quaternion that is not a rotation
SO3NonUnit == SO3_from_xyzw(NumOne, NumOne, NumOne, NumOne)

Points ==
    << <<NumOne, NumTwo, Lit(3, 1)>>, <<Lit(-1, 2), Lit(1, 4), NumTwo>>,
       <<NumZero, NumZero, NumOne>>, <<Lit(3, 1), Lit(-1, 1), Lit(1, 2)>>,
       <<Lit(1, 4), Lit(-4, 1), NumZero>>, <<NumOne, NumOne, NumOne>> >>

SE3Samples == [k \in 1..Len(SO3Samples) |-> [rot |-> SO3Samples[k], xyz |-> Points[k]]]

VectorSamples ==
    << [i \in 1..VectorN |-> Lit(i, 1)] \o <<>>,
       [i \in 1..VectorN |-> Lit(-(i + 1), 4)] \o <<>>,
       [i \in 1..VectorN |-> Lit(2 * i - 3, 8)] \o <<>>,
       [i \in 1..VectorN |-> Lit(i * i, 10)] \o <<>>,
       [i \in 1..VectorN |-> NumZero] \o <<>> >>

Elems(t) ==
    CASE t = "SO3" -> {SO3Samples[k] : k \in 1..MaxElem}
      [] t = "SE3" -> {SE3Samples[k] : k \in 1..MaxElem}
      [] OTHER -> {VectorSamples[k] : k \in 1..MaxElem}

PointSet == {Points[k] : k \in 1..MaxPoint}

(***************************************************************************)
(* Actions: one call of the API on the operands.                           *)
(***************************************************************************)
Done(name, result) ==
    /\ op = "init"
    /\ op' = name
    /\ out' = result
    /\ steps' = steps + 1
    /\ UNCHANGED seeding

Identity ==
    /\ Done("identity", identity(T))
    /\ UNCHANGED <<left, T, X, Y, xi, v>>

Inverse ==
    /\ Done("inverse", inverse(T, X))
    /\ UNCHANGED <<left, T, X, Y, xi, v>>

Compose ==
    \E y \in Elems(T) :
        /\ Done("compose", compose(T, X, y))
        /\ Y' = y
        /\ UNCHANGED <<left, T, X, xi, v>>

ToMatrix ==
    /\ T \in {"SO3", "SE3"}
    /\ Done("to_matrix", to_matrix(T, X))
    /\ UNCHANGED <<left, T, X, Y, xi, v>>

Adjoint ==
    /\ T \in {"SO3", "SE3"}
    /\ Done("adjoint", adjoint(T, X))
    /\ UNCHANGED <<left, T, X, Y, xi, v>>

Apply ==
    \E p \in PointSet :
        /\ T \in {"SO3", "SE3"}
        /\ Done("apply", apply(T, X, p))
        /\ v' = p
        /\ UNCHANGED <<left, T, X, Y, xi>>

(***************************************************************************)
(* Spec: the group operations on one element X of each type.               *)
(***************************************************************************)
Init ==
    /\ left \in BOOLEAN
    /\ T \in Types
    /\ X \in Elems(T) \cup (IF T = "SO3" THEN {SO3NonUnit} ELSE {})
    /\ Y = identity(T)
    /\ xi = VecZeros(DIM(T))
    /\ v = VecZeros(3)
    /\ op = "init"
    /\ out = <<>>
    /\ steps = 0
    /\ kinds = <<>>
    /\ seeds = <<>>

Next == Identity \/ Inverse \/ Compose \/ ToMatrix \/ Adjoint \/ Apply

Spec == Init /\ [][Next]_vars

(***************************************************************************)
(* Tangent vectors of norm between 1e-8 and 1, on both sides of the        *)
(* small-angle thresholds of exp and log.                                  *)
(***************************************************************************)
MaxTangent == 6

\* 0.0031622776601684, the 16-digit decimal next above the square root of 1e-5
AboveRootSE3 == Real(FixMk(FALSE, <<1684, 7660, 6227, 31>>))

SO3Tangents ==
    << <<Lit(1, 10), Lit(2, 10), Lit(3, 10)>>,
       <<Lit(6, 10000), Lit(-6, 10000), Lit(5, 10000)>>,
       <<Lit(6, 10000), Lit(6, 10000), Lit(6, 10000)>>,
       <<Lit(1, 100000000), NumZero, NumZero>>,
       <<Lit(6, 10), NumZero, Lit(-8, 10)>>,
       <<Lit(2, 1000), Lit(1, 1000), NumZero>>,
       <<NumZero, Lit(-1, 2), Lit(1, 4)>> >>

SE3Tangents ==
    << <<Lit(1, 10), Lit(2, 10), Lit(3, 10), Lit(5, 10), Lit(-4, 10), Lit(3, 10)>>,
       <<Lit(3, 1000), Lit(5, 10000), NumZero, Lit(2, 10), Lit(3, 10), Lit(9, 10)>>,
       <<Lit(3, 1000), Lit(1, 1000), Lit(5, 10000), Lit(3, 10), Lit(2, 10), Lit(-9, 10)>>,
       <<AboveRootSE3, NumZero, NumZero, NumZero, Lit(9, 10), NumZero>>,
       <<NumZero, NumZero, NumZero, Lit(1, 100000000), NumZero, NumZero>>,
       <<Lit(6, 10), NumZero, Lit(-8, 10), NumZero, NumZero, NumZero>>,
       <<NumZero, NumZero, NumZero, Lit(6, 10), NumZero, Lit(8, 10)>> >>

VectorTangents == [k \in 1..(MaxTangent + 1) |-> [i \in 1..VectorN |-> Lit(i - k, 10)] \o <<>>] \o <<>>

Tangents(t) ==
    CASE t = "SO3" -> {SO3Tangents[k] : k \in 1..MaxTangent}
      [] t = "SE3" -> {SE3Tangents[k] : k \in 1..MaxTangent}
      [] OTHER -> {VectorTangents[k] : k \in 1..MaxTangent}

\* quaternions on either side of w = 0, and at it
SO3NearHalfTurn ==
    { SO3_from_xyzw(Lit(6, 10), Lit(8, 10), NumZero, Lit(1, 100000000)),
      SO3_from_xyzw(Lit(6, 10), Lit(8, 10), NumZero, Lit(-1, 100000000)),
      SO3_from_xyzw(NumZero, NumZero, NumOne, NumZero) }

(***************************************************************************)
(* SpecTangent: exp, log, hat and adjoint on a tangent vector xi and an    *)
(* element X; log also applies to the result of exp.                       *)
(***************************************************************************)
Exp ==
    /\ op = "init"
    /\ op' = "exp"
    /\ X' = exp(T, xi)
    /\ out' = X'
    /\ steps' = steps + 1
    /\ UNCHANGED seeding
    /\ UNCHANGED <<left, T, Y, xi, v>>

Log ==
    /\ op \in {"init", "exp"}
    /\ op' = (IF op = "exp" THEN "exp_log" ELSE "log")
    /\ out' = log(T, X)
    /\ steps' = steps + 1
    /\ UNCHANGED seeding
    /\ UNCHANGED <<left, T, X, Y, xi, v>>

Hat ==
    /\ T \in {"SO3", "SE3"}
    /\ Done("hat", hat(T, xi))
    /\ UNCHANGED <<left, T, X, Y, xi, v>>

InitTangent ==
    /\ left = FALSE
    /\ T \in Types
    /\ X \in Elems(T) \cup (IF T = "SO3" THEN SO3NearHalfTurn ELSE {})
    /\ Y = identity(T)
    /\ xi \in Tangents(T)
    /\ v = VecZeros(3)
    /\ op = "init"
    /\ out = <<>>
    /\ steps = 0
    /\ kinds = <<>>
    /\ seeds = <<>>

NextTangent == Exp \/ Log \/ Hat \/ Adjoint

SpecTangent == InitTangent /\ [][NextTangent]_vars

(***************************************************************************)
(* SpecRetract: the retraction X.oplus(xi), the difference of its result   *)
(* to X, and the dual-number seeding of X, in a build with or without the  *)
(* feature "left".                                                         *)
(***************************************************************************)
MaxIdx == 1

Oplus ==
    /\ op = "init"
    /\ op' = "oplus"
    /\ Y' = oplus(T, X, xi)
    /\ out' = Y'
    /\ steps' = steps + 1
    /\ UNCHANGED seeding
    /\ UNCHANGED <<left, T, X, xi, v>>

\* Y.ominus(X): Y is the result of Oplus, or the identity before it
Ominus ==
    /\ op \in {"init", "oplus"}
    /\ op' = (IF op = "oplus" THEN "oplus_ominus" ELSE "ominus")
    /\ out' = ominus(T, Y, X)
    /\ steps' = steps + 1
    /\ UNCHANGED seeding
    /\ UNCHANGED <<left, T, X, Y, xi, v>>

\* X.dual::<N>(idx); Y records the setup element dual_exp::<N>(idx)
Dual ==
    \E idx \in 0..MaxIdx :
        /\ Done("dual", dual(T, X, DIM(T) + MaxIdx, idx))
        /\ Y' = dual_exp(T, DIM(T) + MaxIdx, idx)
        /\ UNCHANGED <<left, T, X, xi, v>>

InitRetract ==
    /\ left \in BOOLEAN
    /\ T \in Types
    /\ X \in Elems(T)
    /\ Y = identity(T)
    /\ xi \in Tangents(T)
    /\ v = VecZeros(3)
    /\ op = "init"
    /\ out = <<>>
    /\ steps = 0
    /\ kinds = <<>>
    /\ seeds = <<>>

NextRetract == Oplus \/ Ominus \/ Dual

SpecRetract == InitRetract /\ [][NextRetract]_vars

(***************************************************************************)
(* SpecStore: the SO3 value X held by a caller through a sequence of the   *)
(* public constructors and operations.                                     *)
(***************************************************************************)
MaxSteps == 2

\* arguments given to from_xyzw
Components == {Lit(1, 2), Lit(-1, 2), NumOne}

\* arguments given to from_matrix: rotation matrices, and one that is not
Matrices ==
    {SO3_to_matrix(q) : q \in Elems("SO3")} \cup {MatScale(MatIdentity(3), NumTwo)}

Stored(name, q) ==
    /\ steps < MaxSteps
    /\ op' = name
    /\ X' = q
    /\ out' = q
    /\ steps' = steps + 1
    /\ UNCHANGED seeding

SetIdentity ==
    /\ Stored("identity", SO3_identity)
    /\ UNCHANGED <<left, T, Y, xi, v>>

FromXyzw ==
    \E x \in Components, y \in Components, z \in Components, w \in Components :
        /\ Stored("from_xyzw", SO3_from_xyzw(x, y, z, w))
        /\ UNCHANGED <<left, T, Y, xi, v>>

FromVec ==
    \E q \in Elems("SO3") \cup {SO3NonUnit} :
        /\ Stored("from_vec", SO3_from_vec(q.xyzw))
        /\ UNCHANGED <<left, T, Y, xi, v>>

FromMatrix ==
    \E mat \in Matrices :
        /\ Stored("from_matrix", SO3_from_matrix(mat))
        /\ UNCHANGED <<left, T, Y, xi, v>>

SetExp ==
    \E delta \in Tangents("SO3") :
        /\ Stored("exp", SO3_exp(delta))
        /\ xi' = delta
        /\ UNCHANGED <<left, T, Y, v>>

SetInverse ==
    /\ Stored("inverse", SO3_inverse(X))
    /\ UNCHANGED <<left, T, Y, xi, v>>

SetCompose ==
    \E y \in Elems("SO3") :
        /\ Stored("compose", SO3_compose(X, y))
        /\ Y' = y
        /\ UNCHANGED <<left, T, xi, v>>

SetOplus ==
    \E delta \in Tangents("SO3") :
        /\ Stored("oplus", oplus("SO3", X, delta))
        /\ xi' = delta
        /\ UNCHANGED <<left, T, Y, v>>

InitStore ==
    /\ left \in BOOLEAN
    /\ T = "SO3"
    /\ X = SO3_identity
    /\ Y = SO3_identity
    /\ xi = VecZeros(3)
    /\ v = VecZeros(3)
    /\ op = "init"
    /\ out = <<>>
    /\ steps = 0
    /\ kinds = <<>>
    /\ seeds = <<>>

NextStore ==
    \/ SetIdentity \/ FromXyzw \/ FromVec \/ FromMatrix
    \/ SetExp \/ SetInverse \/ SetCompose \/ SetOplus

SpecStore == InitStore /\ [][NextStore]_vars

(***************************************************************************)
(* SpecSeed: the variables X_1..X_m of a function are seeded for automatic *)
(* differentiation, one call of dual_exp each, variable i at the offset of *)
(* the tangent dimensions before it.                                       *)
(***************************************************************************)
MaxVars == 4

\* the types of the variables: VectorVar builds its tangent seed itself, SE3
\* takes the default construction, and SO3 replaces the default by a closed form
SeedKinds == {"VectorVar", "SE3", "SO3"}

RECURSIVE TotalDim(_)
\* N: the tangent dimensions of the variables, summed
TotalDim(ks) == IF ks = <<>> THEN 0 ELSE DIM(Head(ks)) + TotalDim(Tail(ks))

\* the offset of variable i: the tangent dimensions of the variables before it
Offset(ks, i) == TotalDim(SubSeq(ks, 1, i - 1))

\* the tangent vector dual_exp::<n>(idx) seeds for a variable of type t: that of
\* VectorVar::dual_exp, else that of the default construction
SeedTangent(t, n, idx) ==
    IF t = "VectorVar" THEN VectorVar_dual_exp(VectorN, n, idx)
    ELSE Variable_dual_tv(t, n, idx)

DualExp ==
    /\ Len(seeds) < Len(kinds)
    /\ T' = kinds[Len(seeds) + 1]
    /\ seeds' = Append(seeds, SeedTangent(T', TotalDim(kinds), Offset(kinds, Len(seeds) + 1)))
    /\ op' = "dual_exp"
    /\ out' = dual_exp(T', TotalDim(kinds), Offset(kinds, Len(seeds) + 1))
    /\ steps' = steps + 1
    /\ UNCHANGED <<left, X, Y, xi, v, kinds>>

InitSeed ==
    /\ left = FALSE
    /\ kinds \in UNION {[1..m -> SeedKinds] : m \in 1..MaxVars}
    /\ seeds = <<>>
    /\ T = kinds[1]
    /\ X = identity(T)
    /\ Y = identity(T)
    /\ xi = VecZeros(DIM(T))
    /\ v = VecZeros(3)
    /\ op = "init"
    /\ out = <<>>
    /\ steps = 0

NextSeed == DualExp

SpecSeed == InitSeed /\ [][NextSeed]_vars

(***************************************************************************)
(* GaussianNoise<N>: the square-root information matrix sqrt_inf, its      *)
(* constructors and the whitening of a vector and of a matrix.  A value    *)
(* of dtype is a number without derivative.                                *)
(***************************************************************************)
MatTranspose(m) ==
    [i \in 1..Len(m[1]) |-> [j \in 1..Len(m) |-> m[j][i]] \o <<>>] \o <<>>

None == [some |-> FALSE, val |-> <<>>]

Some(val) == [some |-> TRUE, val |-> val]

\* Matrix2::try_inverse: none when the determinant is zero
Mat2InverseBy(m, det) ==
    IF det.re = FZero THEN None
    ELSE Some(<< <<NumDiv(m[2][2], det), NumDiv(NumNeg(m[1][2]), det)>>,
                 <<NumDiv(NumNeg(m[2][1]), det), NumDiv(m[1][1], det)>> >>)

\* Matrix<N, N>::try_inverse, N <= 3
Matrix_try_inverse(m) ==
    CASE Len(m) = 1 ->
            IF m[1][1].re = FZero THEN None ELSE Some(<< <<NumDiv(NumOne, m[1][1])>> >>)
      [] Len(m) = 2 ->
            Mat2InverseBy(m, NumSub(NumMul(m[1][1], m[2][2]), NumMul(m[2][1], m[1][2])))
      [] OTHER -> try_inverse(m)

\* Cholesky: rows j.. of column j take the factor -m[j][k] times column k
Cholesky_axpy(m, j, k) ==
    [i \in 1..Len(m) |->
        [c \in 1..Len(m) |->
            IF c = j /\ i >= j THEN NumSub(m[i][j], NumMul(m[j][k], m[i][k]))
            ELSE m[i][c]] \o <<>>] \o <<>>

RECURSIVE Cholesky_reduce(_, _, _)
\* column j after the columns 1..k before it are taken off
Cholesky_reduce(m, j, k) ==
    IF k = 0 THEN m ELSE Cholesky_axpy(Cholesky_reduce(m, j, k - 1), j, k)

\* the diagonal entry becomes its root denom, the entries below are divided by it
Cholesky_scale(m, j, denom) ==
    [i \in 1..Len(m) |->
        [c \in 1..Len(m) |->
            IF c = j /\ i = j THEN denom
            ELSE IF c = j /\ i > j THEN NumDiv(m[i][j], denom)
            ELSE m[i][c]] \o <<>>] \o <<>>

RECURSIVE Cholesky_from(_, _)
\* none when the diagonal entry is zero or has no real root
Cholesky_pivot(m, j) ==
    IF m[j][j].re = FZero \/ m[j][j].re.neg THEN None
    ELSE Cholesky_from(Cholesky_scale(m, j, NumSqrt(m[j][j])), j + 1)

Cholesky_from(m, j) ==
    IF j > Len(m) THEN Some(m) ELSE Cholesky_pivot(Cholesky_reduce(m, j, j - 1), j)

\* Matrix::cholesky: only the lower triangle of m is read
cholesky(m) == Cholesky_from(m, 1)

\* Cholesky::l: the lower triangle of the factor, zero above the diagonal
Cholesky_l(m) ==
    [i \in 1..Len(m) |-> [c \in 1..Len(m) |-> IF c > i THEN NumZero ELSE m[i][c]] \o <<>>] \o <<>>

GaussianNoise(sqrt_inf) == [panic |-> FALSE, sqrt_inf |-> sqrt_inf]

\* expect() on none: the thread panics and no noise model is returned
GaussianNoise_panic == [panic |-> TRUE, sqrt_inf |-> <<>>]

GaussianNoise_split(N, inf1, inf2) ==
    GaussianNoise([i \in 1..N |->
                     [j \in 1..N |-> IF i # j THEN NumZero
                                     ELSE IF i <= N \div 2 THEN inf1 ELSE inf2] \o <<>>] \o <<>>)

\* Mutant: the first group takes the middle element of an odd N
GaussianNoise_from_split_sigma_ceil(N, sigma1, sigma2) ==
    GaussianNoise([i \in 1..N |->
                     [j \in 1..N |-> IF i # j THEN NumZero
                                     ELSE IF i <= (N + 1) \div 2 THEN NumDiv(NumOne, sigma1)
                                     ELSE NumDiv(NumOne, sigma2)] \o <<>>] \o <<>>)

GaussianNoise_from_split_sigma(N, sigma1, sigma2) ==
    GaussianNoise_split(N, NumDiv(NumOne, sigma1), NumDiv(NumOne, sigma2))

GaussianNoise_from_split_cov(N, cov1, cov2) ==
    GaussianNoise_split(N, NumDiv(NumOne, NumSqrt(cov1)), NumDiv(NumOne, NumSqrt(cov2)))

GaussianNoise_of_cholesky(chol) ==
    IF chol.some THEN GaussianNoise(MatTranspose(Cholesky_l(chol.val)))
    ELSE GaussianNoise_panic

GaussianNoise_from_matrix_inf(inf) == GaussianNoise_of_cholesky(cholesky(inf))

GaussianNoise_of_inverse(inv) ==
    IF inv.some THEN GaussianNoise_from_matrix_inf(inv.val) ELSE GaussianNoise_panic

GaussianNoise_from_matrix_cov(cov) == GaussianNoise_of_inverse(Matrix_try_inverse(cov))

\* mul_to asserts that the dimensions agree
GaussianNoise_whiten_vec(self, e) ==
    IF Len(e) # Len(self.sqrt_inf) THEN <<"panic">> ELSE MatVec(self.sqrt_inf, e)

\* Mutant: the transpose of sqrt_inf multiplies
GaussianNoise_whiten_mat_transposed(self, m) ==
    IF Len(m) # Len(self.sqrt_inf) THEN <<"panic">>
    ELSE MatMul(MatTranspose(self.sqrt_inf), m)

GaussianNoise_whiten_mat(self, m) ==
    IF Len(m) # Len(self.sqrt_inf) THEN <<"panic">> ELSE MatMul(self.sqrt_inf, m)

(***************************************************************************)
(* SpecNoise: a GaussianNoise is constructed, then whitens a vector or a   *)
(* matrix.  X is the noise model, out the result of the last call.         *)
(***************************************************************************)
MaxN == 3

MaxCov == 2

\* sigmas and covariances
Scalars == {Lit(1, 2), Lit(2, 1), Lit(4, 1)}

\* the entries of the matrices handed to from_matrix_cov and from_matrix_inf
CovEntries == {Real(FFromInt(k)) : k \in -1..MaxCov}

CovMatrices ==
    {<< <<a>> >> : a \in CovEntries}
        \cup {<< <<a, b>>, <<c, d>> >> : a \in CovEntries, b \in CovEntries,
                                           c \in CovEntries, d \in CovEntries}

\* vectors and matrices to whiten, with N rows
NoiseVector(N, k) == [i \in 1..N |-> Lit(2 * i - 3 * k, 2)] \o <<>>

NoiseVectors(N) == {NoiseVector(N, k) : k \in 1..2}

NoiseMatrices(N) ==
    {[i \in 1..N |-> <<NoiseVector(N, 1)[i], NoiseVector(N, 2)[i]>>] \o <<>>,
     [i \in 1..N |-> [j \in 1..N |-> Lit(i + 2 * j, 1)] \o <<>>] \o <<>>}

Constructed(name, noise) ==
    /\ op = "init"
    /\ op' = name
    /\ X' = noise
    /\ out' = noise
    /\ steps' = steps + 1
    /\ UNCHANGED <<left, T, v, seeding>>

FromSplitSigma ==
    \E N \in 1..MaxN : \E a \in Scalars : \E b \in Scalars :
        /\ Constructed("from_split_sigma", GaussianNoise_from_split_sigma(N, a, b))
        /\ xi' = <<a, b>>
        /\ UNCHANGED Y

FromSplitCov ==
    \E N \in 1..MaxN : \E a \in Scalars : \E b \in Scalars :
        /\ Constructed("from_split_cov", GaussianNoise_from_split_cov(N, a, b))
        /\ xi' = <<a, b>>
        /\ UNCHANGED Y

FromMatrixCov ==
    \E cov \in CovMatrices :
        /\ Constructed("from_matrix_cov", GaussianNoise_from_matrix_cov(cov))
        /\ Y' = cov
        /\ UNCHANGED xi

FromMatrixInf ==
    \E inf \in CovMatrices :
        /\ Constructed("from_matrix_inf", GaussianNoise_from_matrix_inf(inf))
        /\ Y' = inf
        /\ UNCHANGED xi

IsConstructed == op \notin {"init", "whiten_vec", "whiten_mat"} /\ ~X.panic

WhitenVec ==
    /\ IsConstructed
    /\ \E e \in NoiseVectors(Len(X.sqrt_inf)) :
          /\ xi' = e
          /\ out' = GaussianNoise_whiten_vec(X, e)
    /\ op' = "whiten_vec"
    /\ steps' = steps + 1
    /\ UNCHANGED <<left, T, X, Y, v, seeding>>

WhitenMat ==
    /\ IsConstructed
    /\ \E J \in NoiseMatrices(Len(X.sqrt_inf)) :
          /\ Y' = J
          /\ out' = GaussianNoise_whiten_mat(X, J)
    /\ op' = "whiten_mat"
    /\ steps' = steps + 1
    /\ UNCHANGED <<left, T, X, xi, v, seeding>>

InitNoise ==
    /\ left = FALSE
    /\ T = "GaussianNoise"
    /\ X = GaussianNoise_panic
    /\ Y = <<>>
    /\ xi = <<>>
    /\ v = <<>>
    /\ op = "init"
    /\ out = <<>>
    /\ steps = 0
    /\ kinds = <<>>
    /\ seeds = <<>>

NextNoise ==
    \/ FromSplitSigma
    \/ FromSplitCov
    \/ FromMatrixCov
    \/ FromMatrixInf
    \/ WhitenVec
    \/ WhitenMat

SpecNoise == InitNoise /\ [][NextNoise]_vars

(***************************************************************************)
(* The macro fac!: its input is a list of expressions, each a syntax node  *)
(* with a kind (the variant of syn::Expr), a name (the path of a Path or   *)
(* of the callee of a Call, the type of a Cast, the text of a literal) and *)
(* its sub-expressions.  A name stands for the item it resolves to.        *)
(***************************************************************************)
Expr(kind, name, elems) == [kind |-> kind, name |-> name, elems |-> elems]

Path(name) == Expr("Path", name, <<>>)

Call(name, args) == Expr("Call", name, args)

\* syn::Result
Ok(val) == [ok |-> TRUE, val |-> val, err |-> ""]

Err(msg) == [ok |-> FALSE, val |-> <<>>, err |-> msg]

\* Mutant: the function is named after one key more than given
Factor_new_call_one_more(self) ==
    Call("FactorBuilder::new" \o ToString(Len(self.keys) + 1), <<self.residual>> \o self.keys)

Factor_new_call(self) ==
    Call("FactorBuilder::new" \o ToString(Len(self.keys)), <<self.residual>> \o self.keys)

\* Mutant: the noise is handed to robust
Factor_noise_call_as_robust(self) ==
    IF self.noise # <<>> THEN <<Call("robust", self.noise)>> ELSE <<>>

Factor_noise_call(self) == IF self.noise # <<>> THEN <<Call("noise", self.noise)>> ELSE <<>>

Factor_robust_call(self) == IF self.robust # <<>> THEN <<Call("robust", self.robust)>> ELSE <<>>

\* the keys of the second item
Factor_parse_keys(e) ==
    CASE e.kind \in {"Array", "Tuple"} -> Ok(e.elems)
      [] e.kind \in {"Path", "Call"} -> Ok(<<e>>)
      [] OTHER -> Err("Expected keys in brackets or parentheses")

\* Mutant: the cast to sig is not known
Factor_parse_cast_ty_no_sig(ty) ==
    CASE ty = "cov" -> "cov"
      [] ty \in {"std", "sigma"} -> "sigma"
      [] OTHER -> ""

\* the suffix of the constructor for a cast to ty, empty for an unknown cast
Factor_parse_cast_ty(ty) ==
    CASE ty = "cov" -> "cov"
      [] ty \in {"std", "sigma", "sig"} -> "sigma"
      [] OTHER -> ""

Factor_parse_cast(expr, ty) ==
    IF expr.kind = "Tuple"
    THEN IF Len(expr.elems) # 2
         THEN Err("Expected tuple with two elements for split std/cov")
         ELSE Ok(<<Call("GaussianNoise::from_split_" \o ty, expr.elems)>>)
    ELSE Ok(<<Call("GaussianNoise::from_scalar_" \o ty, <<expr>>)>>)

\* the noise of the third item
Factor_parse_noise(e) ==
    CASE e.kind = "Cast" ->
            IF Factor_parse_cast_ty(e.name) = "" THEN Err("Unknown cast for noise")
            ELSE Factor_parse_cast(e.elems[1], Factor_parse_cast_ty(e.name))
      [] e.kind = "Infer" -> Ok(<<Path("UnitNoise")>>)
      [] OTHER -> Ok(<<e>>)

Factor(residual, keys, noise, robust) ==
    [residual |-> residual, keys |-> keys, noise |-> noise, robust |-> robust]

Factor_parse_with_noise(input, keys, noise) ==
    IF ~noise.ok THEN noise
    ELSE Ok(Factor(input[1], keys, noise.val, IF Len(input) = 4 THEN <<input[4]>> ELSE <<>>))

Factor_parse_with_keys(input, keys) ==
    IF ~keys.ok THEN keys
    ELSE Factor_parse_with_noise(input, keys.val,
             IF Len(input) >= 3 THEN Factor_parse_noise(input[3]) ELSE Ok(<<>>))

\* the macro panics: no syn::Error is returned
Panicked(msg) == [ok |-> FALSE, val |-> <<"panic">>, err |-> msg]

\* the error names input[0], which an empty input does not have
Factor_parse_too_few(input) ==
    IF Len(input) = 0 THEN Panicked("index out of bounds")
    ELSE Err("Expected at least two items")

Factor_parse(input) ==
    IF Len(input) < 2 THEN Factor_parse_too_few(input)
    ELSE IF Len(input) > 4 THEN Err("Expected at most four items")
    ELSE Factor_parse_with_keys(input, Factor_parse_keys(input[2]))

\* the calls of the expansion, in the order they are chained
fac(factor) ==
    <<Factor_new_call(factor)>> \o Factor_robust_call(factor) \o Factor_noise_call(factor)
        \o <<Call("build", <<>>)>>

(***************************************************************************)
(* SpecFac: an invocation fac![...] is parsed, then expanded.  X is the    *)
(* list of items, Y the parsed Factor or the error, out the last result.   *)
(***************************************************************************)
MaxKeys == 3

\* the keys X(0), X(1), ...
Keys(n) == [i \in 1..n |-> Call("X", <<Expr("Lit", ToString(i - 1), <<>>)>>)] \o <<>>

KeyItems ==
    {Expr("Tuple", "", Keys(n)) : n \in 0..MaxKeys}
        \cup {Expr("Array", "", Keys(n)) : n \in 0..MaxKeys}
        \cup {Keys(1)[1], Path("k"), Expr("Paren", "", Keys(1)), Expr("Lit", "0", <<>>),
              Expr("MethodCall", "key", <<Path("x")>>)}

Scalar == Expr("Lit", "0.1", <<>>)

Pair == Expr("Tuple", "", <<Scalar, Expr("Lit", "0.3", <<>>)>>)

NoiseItems ==
    {Expr("Cast", ty, <<e>>) :
         ty \in {"std", "sigma", "sig", "cov", "f64"},
         e \in {Scalar, Path("s"), Pair, Expr("Tuple", "", <<Scalar>>),
                Expr("Tuple", "", <<Scalar, Scalar, Scalar>>)}}
        \cup {Expr("Infer", "_", <<>>), Path("noise"), Pair,
              Call("GaussianNoise::from_scalar_sigma", <<Scalar>>),
              Call("GaussianNoise::from_scalar_sigma", <<Path("s")>>)}

RobustItems == {Call("Huber::default", <<>>)}

Inputs ==
    {<<>>, <<Path("prior")>>}
        \cup {<<Path("prior"), k>> : k \in KeyItems}
        \cup {<<Path("prior"), k, n>> : k \in KeyItems, n \in NoiseItems}
        \cup {<<Path("prior"), k, n, r>> : k \in KeyItems, n \in NoiseItems, r \in RobustItems}
        \cup {<<Path("prior"), Keys(1)[1], n, r, r>> : n \in NoiseItems, r \in RobustItems}

ParseFactor ==
    /\ op = "init"
    /\ op' = "parse"
    /\ Y' = Factor_parse(X)
    /\ out' = Y'
    /\ steps' = steps + 1
    /\ UNCHANGED <<left, T, X, xi, v, seeding>>

Fac ==
    /\ op = "parse"
    /\ Y.ok
    /\ op' = "fac"
    /\ out' = fac(Y.val)
    /\ steps' = steps + 1
    /\ UNCHANGED <<left, T, X, Y, xi, v, seeding>>

InitFac ==
    /\ left = FALSE
    /\ T = "Factor"
    /\ X \in Inputs
    /\ Y = Err("")
    /\ xi = <<>>
    /\ v = <<>>
    /\ op = "init"
    /\ out = <<>>
    /\ steps = 0
    /\ kinds = <<>>
    /\ seeds = <<>>

NextFac == ParseFactor \/ Fac

SpecFac == InitFac /\ [][NextFac]_vars

(***************************************************************************)
(* The attribute #[mark] on an implementation of Variable.  An item is the *)
(* name of the implementing type and the kinds of the generic parameters   *)
(* of the impl; an expansion is the item emitted, the registrations added  *)
(* and the compile error, if any.                                          *)
(***************************************************************************)
ItemImpl(name, generics) == [name |-> name, generics |-> generics]

Expansion(item, tags, error) == [item |-> item, tags |-> tags, error |-> error]

\* the registrations of the variable, of its prior and of its between residual
tag_all(name) ==
    <<"VariableSafe:" \o name,
      "Residual:PriorResidual<" \o name \o ">",
      "Residual:BetweenResidual<" \o name \o ">">>

variable_mark(serde, item) ==
    IF ~serde THEN Expansion(<<item>>, <<>>, "")
    ELSE IF Len(item.generics) = 0
         THEN Expansion(<<>>, <<>>, "variable should have dtype generic")
    ELSE IF Len(item.generics) = 1
         THEN Expansion(<<item>>, tag_all(item.name) \o <<"Tagged:" \o item.name>>, "")
    ELSE Expansion(<<item>>, <<>>, "")

(***************************************************************************)
(* SpecMark: an implementation of Variable is marked, in a build with or   *)
(* without serde.  X is the item, Y the feature, out the expansion.        *)
(***************************************************************************)
MaxGenerics == 3

GenericKinds == {"type", "const usize", "lifetime"}

Items ==
    {ItemImpl(name, generics) :
         name \in {"SO3", "SE3", "VectorVar"},
         generics \in UNION {[1..m -> GenericKinds] : m \in 0..MaxGenerics}}

Mark ==
    /\ op = "init"
    /\ op' = "mark"
    /\ out' = variable_mark(Y, X)
    /\ steps' = steps + 1
    /\ UNCHANGED <<left, T, X, Y, xi, v, seeding>>

InitMark ==
    /\ left = FALSE
    /\ T = "Variable"
    /\ X \in Items
    /\ Y \in BOOLEAN
    /\ xi = <<>>
    /\ v = <<>>
    /\ op = "init"
    /\ out = <<>>
    /\ steps = 0
    /\ kinds = <<>>
    /\ seeds = <<>>

NextMark == Mark

SpecMark == InitMark /\ [][NextMark]_vars

(***************************************************************************)
(* Residuals, graph and linear system of the optimizers.  One type T per   *)
(* run; Values holds X(0) or X(0), X(1) in insertion order; the graph is   *)
(* a sequence of prior and between factors with unit noise and the L2      *)
(* kernel.                                                                 *)
(***************************************************************************)
\* r(X) = X (-) X_prior
PriorResidual(t, prior, x) == ominus(t, x, prior)

\* r(X, Y) = (X^-1 * Y) (-) Z_meas
BetweenResidual(t, delta, x1, x2) ==
    ominus(t, compose(t, inverse(t, x1), x2), delta)

\* a factor: its residual, the indices of its keys in the Values, its data
PriorFactor(key, prior) == [residual |-> "Prior", keys |-> <<key>>, meas |-> prior]

BetweenFactor(key1, key2, delta) ==
    [residual |-> "Between", keys |-> <<key1, key2>>, meas |-> delta]

Factor_residual(t, f, xs) ==
    IF f.residual = "Prior" THEN PriorResidual(t, cast(t, f.meas), xs[f.keys[1]])
    ELSE BetweenResidual(t, cast(t, f.meas), xs[f.keys[1]], xs[f.keys[2]])

RECURSIVE Graph_residual_to(_, _, _, _)
Graph_residual_to(t, graph, xs, n) ==
    IF n = 0 THEN <<>>
    ELSE Graph_residual_to(t, graph, xs, n - 1) \o Factor_residual(t, graph[n], xs)

\* the stacked residual of the factors, rows in factor order
Graph_residual(t, graph, xs) == Graph_residual_to(t, graph, xs, Len(graph))

\* total width W of the columns
Values_dim(t, values) == Len(values) * DIM(t)

\* every variable seeded at its running offset
Values_dual(t, values) ==
    [i \in 1..Len(values) |->
        dual(t, values[i], Values_dim(t, values), (i - 1) * DIM(t))] \o <<>>

\* delta is sliced per variable and passed as the tangent to oplus
Values_oplus(t, values, delta) ==
    [i \in 1..Len(values) |->
        oplus(t, values[i], SubSeq(delta, (i - 1) * DIM(t) + 1, i * DIM(t)))] \o <<>>

\* the cost: half the squared norm of the residuals
Graph_error_of(e) == NumMul(NumHalf, Dot(e, e))

\* the Jacobian: row i holds the derivative parts of residual i
Jacobian_row(num, w) ==
    [j \in 1..w |-> IF num.eps = <<>> THEN NumZero ELSE Real(num.eps[j])] \o <<>>

Graph_jacobian(rd, w) == [i \in 1..Len(rd) |-> Jacobian_row(rd[i], w)] \o <<>>

\* H = J^T J + lambda D, with D the diagonal of J^T J
Damped(h, lambda) ==
    [i \in 1..Len(h) |->
        [j \in 1..Len(h) |->
            IF i = j THEN NumAdd(h[i][i], NumMul(lambda, h[i][i])) ELSE h[i][j]] \o <<>>] \o <<>>

RECURSIVE Solve_lower(_, _, _)
\* forward substitution: l y = b, y extended one entry at a time
Solve_lower(l, b, y) ==
    IF Len(y) = Len(b) THEN y
    ELSE Solve_lower(l, b,
            Append(y, NumDiv(NumSub(b[Len(y) + 1], Dot(y, l[Len(y) + 1])),
                             l[Len(y) + 1][Len(y) + 1])))

\* the entries of column i of l below the diagonal
Column_below(l, i) == [k \in 1..(Len(l) - i) |-> l[i + k][i]] \o <<>>

RECURSIVE Solve_upper(_, _, _)
\* back substitution: l^T x = y, x extended towards the front
Solve_upper(l, y, x) ==
    IF Len(x) = Len(y) THEN x
    ELSE Solve_upper(l, y,
            <<NumDiv(NumSub(y[Len(y) - Len(x)], Dot(x, Column_below(l, Len(y) - Len(x)))),
                     l[Len(y) - Len(x)][Len(y) - Len(x)])>> \o x)

\* the solution of the factored system, none when the factorization failed
Solve_factored(chol, b) ==
    IF ~chol.some THEN None
    ELSE Some(Solve_upper(chol.val, Solve_lower(chol.val, b, <<>>), <<>>))

\* Cholesky on the normal equations: H delta = -g
Solve_normal(h, g) == Solve_factored(cholesky(h), VecNeg(g))

\* the linear system of one iteration: residual e, Hessian h, gradient g
Linearized(e, j) ==
    [e |-> e, h |-> MatMul(MatTranspose(j), j), g |-> MatVec(MatTranspose(j), e)]

Graph_linearize_of(rd, w) == Linearized(VecCast(rd), Graph_jacobian(rd, w))

Graph_linearize(t, graph, values) ==
    Graph_linearize_of(Graph_residual(t, graph, Values_dual(t, values)),
                       Values_dim(t, values))

(***************************************************************************)
(* The optimizers: the shared driver states and the steps of an iteration  *)
(* of Gauss-Newton and of Levenberg-Marquardt.  The optimizer owns the     *)
(* linearization lin of its Values, the proposal next and its              *)
(* linearization next_lin, whose residual gives the error of the proposal. *)
(***************************************************************************)
\* default tolerances: eps_x = eps_r = 1e-6, lambda_0 = 1e-4, lambda_max = 1e10
eps_x == Real(FixMk(FALSE, <<0, 0, 100>>))

eps_r == Real(FixMk(FALSE, <<0, 0, 100>>))

lambda_0 == Real(FixMk(FALSE, <<0, 0, 0, 1>>))

lambda_max == Real(FixMk(FALSE, <<0, 0, 0, 0, 0, 0, 100>>))

K_max == 100

Terminal == {"CONVERGED", "MAX_ITERS", "LINSOLVE_FAILED"}

States == {"INIT", "ITERATING"} \cup Terminal

NumAbs(a) == Real(FAbs(a.re))

NumMax(a, b) == IF NumLt(a, b) THEN b ELSE a

RECURSIVE NormInfTo(_, _)
NormInfTo(a, n) == IF n = 0 THEN NumZero ELSE NumMax(NormInfTo(a, n - 1), NumAbs(a[n]))

\* the largest absolute entry
NormInf(a) == NormInfTo(a, Len(a))

\* the optimizer as constructed: INIT, no iteration made
Optimizer(kind, k_max) ==
    [kind |-> kind, state |-> "INIT", phase |-> "start", k |-> 0, k_max |-> k_max,
     E |-> NumZero, lambda |-> lambda_0, nu |-> NumTwo, fails |-> 0,
     delta |-> <<>>, solved |-> TRUE, accepted |-> FALSE, rho |-> <<>>,
     lin |-> <<>>, next |-> <<>>, next_lin |-> <<>>]

\* INIT -> ITERATING: the initial Values are the first to be linearized
Optimizer_start(opt, values) ==
    [opt EXCEPT !.state = "ITERATING", !.phase = "evaluate", !.next = values]

\* the linearization of the initial Values is that of Theta_0 and gives E_0;
\* that of a proposal gives E_{k+1} and waits for the decision
Optimizer_evaluated(opt, lin) ==
    IF opt.lin = <<>>
    THEN [opt EXCEPT !.lin = <<lin>>, !.E = Graph_error_of(lin.e), !.phase = "solve"]
    ELSE [opt EXCEPT !.next_lin = <<lin>>, !.phase = "decide"]

\* ||delta||_inf < eps_x or |E_k - E_{k+1}| < eps_r
Converged(delta, e_k, e_next) ==
    NumLt(NormInf(delta), eps_x) \/ NumLt(NumAbs(NumSub(e_k, e_next)), eps_r)

\* Mutant: the bound K_max on the iterations is not tested
GaussNewton_state_unbounded(k, k_max, delta, e_k, e_next) ==
    IF Converged(delta, e_k, e_next) THEN "CONVERGED" ELSE "ITERATING"

\* the state after iteration k of Gauss-Newton
GaussNewton_state(k, k_max, delta, e_k, e_next) ==
    IF Converged(delta, e_k, e_next) THEN "CONVERGED"
    ELSE IF k >= k_max THEN "MAX_ITERS"
    ELSE "ITERATING"

\* always accept
GaussNewton_accept(opt, e_next) ==
    [opt |-> [opt EXCEPT !.k = @ + 1, !.E = e_next, !.accepted = TRUE,
                         !.lin = opt.next_lin, !.phase = "solve",
                         !.state = GaussNewton_state(opt.k + 1, opt.k_max, opt.delta,
                                                     opt.E, e_next)],
     values |-> opt.next]

GaussNewton_step(opt) == GaussNewton_accept(opt, Graph_error_of(opt.next_lin[1].e))

\* a failed solve ends the run of Gauss-Newton
GaussNewton_failed(opt) ==
    [opt EXCEPT !.k = @ + 1, !.solved = FALSE, !.accepted = FALSE,
                !.state = "LINSOLVE_FAILED"]

RECURSIVE PredictedTo(_, _, _, _, _)
\* sum over i <= n of delta_i (lambda h_ii delta_i - g_i)
PredictedTo(h, g, lambda, delta, n) ==
    IF n = 0 THEN NumZero
    ELSE NumAdd(PredictedTo(h, g, lambda, delta, n - 1),
                NumMul(delta[n],
                       NumSub(NumMul(NumMul(lambda, h[n][n]), delta[n]), g[n])))

\* the reduction the damped linear model predicts for the step delta
Predicted(lin, lambda, delta) ==
    NumMul(NumHalf, PredictedTo(lin.h, lin.g, lambda, delta, Len(delta)))

\* the gain ratio, none when the predicted reduction is zero
Gain(e_k, e_next, predicted) ==
    IF predicted.re = FZero THEN <<>> ELSE <<NumDiv(NumSub(e_k, e_next), predicted)>>

Cube(a) == NumMul(a, NumMul(a, a))

\* Mutant: the factor has no floor of 1/3
LevenMarquardt_shrink_no_floor(lambda, rho) ==
    NumMul(lambda, NumSub(NumOne, Cube(NumSub(NumMul(NumTwo, rho), NumOne))))

\* lambda * max(1/3, 1 - (2 rho - 1)^3)
LevenMarquardt_shrink(lambda, rho) ==
    NumMul(lambda,
           NumMax(Lit(1, 3), NumSub(NumOne, Cube(NumSub(NumMul(NumTwo, rho), NumOne)))))

\* the state after iteration k of Levenberg-Marquardt
LevenMarquardt_state(k, k_max, lambda, delta, e_k, e_next) ==
    IF Converged(delta, e_k, e_next) THEN "CONVERGED"
    ELSE IF NumLt(lambda_max, lambda) THEN "CONVERGED"
    ELSE IF k >= k_max THEN "MAX_ITERS"
    ELSE "ITERATING"

\* accept: the proposal becomes the Values, lambda shrinks, the step-fail
\* counter is reset
LevenMarquardt_accept(opt, e_next, rho, lambda) ==
    [opt |-> [opt EXCEPT !.k = @ + 1, !.E = e_next, !.accepted = TRUE, !.rho = <<rho>>,
                         !.lambda = lambda, !.fails = 0,
                         !.lin = opt.next_lin, !.phase = "solve",
                         !.state = LevenMarquardt_state(opt.k + 1, opt.k_max, lambda,
                                                        opt.delta, opt.E, e_next)],
     values |-> opt.next]

\* Mutant: the rejected proposal is kept as the Values
LevenMarquardt_reject_keeps(opt, values, e_next, gain, lambda) ==
    [opt |-> [opt EXCEPT !.k = @ + 1, !.accepted = FALSE, !.rho = gain,
                         !.lambda = lambda, !.nu = NumMul(NumTwo, @),
                         !.fails = @ + 1, !.phase = "solve",
                         !.state = LevenMarquardt_state(opt.k + 1, opt.k_max, lambda,
                                                        opt.delta, opt.E, e_next)],
     values |-> opt.next]

\* reject: the proposal is dropped and Theta_k restored, lambda grows by nu,
\* nu doubles
LevenMarquardt_reject(opt, values, e_next, gain, lambda) ==
    [opt |-> [opt EXCEPT !.k = @ + 1, !.accepted = FALSE, !.rho = gain,
                         !.lambda = lambda, !.nu = NumMul(NumTwo, @),
                         !.fails = @ + 1, !.phase = "solve",
                         !.state = LevenMarquardt_state(opt.k + 1, opt.k_max, lambda,
                                                        opt.delta, opt.E, e_next)],
     values |-> values]

\* Mutant: a gain ratio of zero is accepted too
LevenMarquardt_gain_or_zero(opt, values, e_next, gain) ==
    IF gain # <<>> /\ ~NumLt(gain[1], NumZero)
    THEN LevenMarquardt_accept(opt, e_next, gain[1], LevenMarquardt_shrink(opt.lambda, gain[1]))
    ELSE LevenMarquardt_reject(opt, values, e_next, gain, NumMul(opt.lambda, opt.nu))

\* accept when the gain ratio is defined and positive
LevenMarquardt_gain(opt, values, e_next, gain) ==
    IF gain # <<>> /\ NumLt(NumZero, gain[1])
    THEN LevenMarquardt_accept(opt, e_next, gain[1], LevenMarquardt_shrink(opt.lambda, gain[1]))
    ELSE LevenMarquardt_reject(opt, values, e_next, gain, NumMul(opt.lambda, opt.nu))

LevenMarquardt_evaluate(opt, values, e_next) ==
    LevenMarquardt_gain(opt, values, e_next,
                        Gain(opt.E, e_next, Predicted(opt.lin[1], opt.lambda, opt.delta)))

LevenMarquardt_step(opt, values) ==
    LevenMarquardt_evaluate(opt, values, Graph_error_of(opt.next_lin[1].e))

\* Mutant: the first failed solve ends the run
LevenMarquardt_failed_state_first(k, k_max, lambda) == "LINSOLVE_FAILED"

\* the state after a failed solve: the failure surfaces once lambda is past
\* lambda_max, until then the solve is retried with the larger lambda
LevenMarquardt_failed_state(k, k_max, lambda) ==
    IF NumLt(lambda_max, lambda) THEN "LINSOLVE_FAILED"
    ELSE IF k >= k_max THEN "MAX_ITERS"
    ELSE "ITERATING"

LevenMarquardt_failed(opt, lambda) ==
    [opt EXCEPT !.k = @ + 1, !.solved = FALSE, !.accepted = FALSE,
                !.rho = <<>>, !.lambda = lambda, !.nu = NumMul(NumTwo, @),
                !.fails = @ + 1,
                !.state = LevenMarquardt_failed_state(opt.k + 1, opt.k_max, lambda)]

\* H: J^T J for Gauss-Newton, J^T J + lambda D for Levenberg-Marquardt
Optimizer_system(opt) ==
    IF opt.kind = "LM" THEN Damped(opt.lin[1].h, opt.lambda) ELSE opt.lin[1].h

Optimizer_solved(opt, sol) ==
    IF sol.some THEN [opt EXCEPT !.delta = sol.val, !.solved = TRUE, !.phase = "propose"]
    ELSE IF opt.kind = "LM" THEN LevenMarquardt_failed(opt, NumMul(opt.lambda, opt.nu))
    ELSE GaussNewton_failed(opt)

\* solve for delta
Optimizer_solve(opt) ==
    Optimizer_solved(opt, Solve_normal(Optimizer_system(opt), opt.lin[1].g))

\* the result variant the caller observes at a terminal state
OptResult(state, values) ==
    [ok |-> state = "CONVERGED", val |-> values,
     err |-> CASE state = "LINSOLVE_FAILED" -> "LinearSolveFailed"
               [] state = "MAX_ITERS" -> "MaxIterations"
               [] OTHER -> ""]

(***************************************************************************)
(* Runs of optimize: X is the Values, v the graph, Y the optimizer, out    *)
(* the returned result once the run has ended.                             *)
(***************************************************************************)
MaxProblem == 2

MaxIters == 2

\* the priors: the value of the library's tests, a rotation by 3.04 rad, a
\* rotation by 0.56 rad
SO3Priors ==
    << <<Lit(1, 10), Lit(2, 10), Lit(3, 10)>>,
       <<NumZero, Lit(-3, 1), Lit(1, 2)>>,
       <<NumZero, Lit(-1, 2), Lit(1, 4)>> >>

VectorPriors == <<VectorTangents[1], VectorTangents[5], VectorTangents[7]>>

SO3Measurements == <<SO3Samples[4], SO3Samples[2], SO3Samples[1]>>

VectorMeasurements == <<VectorTangents[5], VectorTangents[7], VectorTangents[1]>>

ProblemSample(t) == IF t = "SO3" THEN SO3Samples[1] ELSE VectorSamples[1]

ProblemPrior(t, k) == exp(t, IF t = "SO3" THEN SO3Priors[k] ELSE VectorPriors[k])

ProblemMeasurement(t, k) ==
    IF t = "SO3" THEN SO3Measurements[k] ELSE exp(t, VectorMeasurements[k])

\* prior: a prior on X(0); between: a prior on X(0) and a between factor;
\* loose: a prior on X(0) and no factor on X(1); float: a between factor only
Shapes == {"prior", "between", "loose", "float"}

ProblemGraph(t, shape, k) ==
    (IF shape = "float" THEN <<>> ELSE <<PriorFactor(1, ProblemPrior(t, k))>>)
    \o (IF shape \in {"between", "float"}
        THEN <<BetweenFactor(1, 2, ProblemMeasurement(t, k))>> ELSE <<>>)

\* the start of X(0): the identity, the prior itself, a value 1e-8 from the
\* prior, a sample of the type
Starts == {"identity", "minimum", "near", "sample"}

NearTangent(t) ==
    [i \in 1..DIM(t) |->
        IF i = 1 THEN Lit(1, 100000000)
        ELSE IF i = 3 THEN Lit(-1, 100000000) ELSE NumZero] \o <<>>

ProblemStart(t, k, start) ==
    CASE start = "identity" -> identity(t)
      [] start = "minimum" -> ProblemPrior(t, k)
      [] start = "near" -> compose(t, ProblemPrior(t, k), exp(t, NearTangent(t)))
      [] OTHER -> ProblemSample(t)

ProblemValues(t, shape, k, start) ==
    <<ProblemStart(t, k, start)>>
    \o (IF shape = "prior" THEN <<>>
        ELSE IF start \in {"minimum", "near"} /\ shape = "between"
             THEN <<compose(t, ProblemPrior(t, k), ProblemMeasurement(t, k))>>
        ELSE <<identity(t)>>)

InitOptimize ==
    /\ left = FALSE
    /\ T \in {"VectorVar", "SO3"}
    /\ \E shape \in Shapes, k \in 1..MaxProblem, start \in Starts :
          /\ X = ProblemValues(T, shape, k, start)
          /\ v = ProblemGraph(T, shape, k)
    /\ \E kind \in {"GN", "LM"}, k_max \in {MaxIters, K_max} : Y = Optimizer(kind, k_max)
    /\ xi = <<>>
    /\ op = "init"
    /\ out = <<>>
    /\ steps = 0
    /\ kinds = <<>>
    /\ seeds = <<>>

\* the optimizer and Values after a step of the run, the result at a terminal
\* state
Stepped(opt, values) ==
    /\ Y' = opt
    /\ X' = values
    /\ xi' = opt.delta
    /\ out' = IF opt.state \in Terminal THEN <<OptResult(opt.state, values)>> ELSE <<>>
    /\ steps' = steps + 1
    /\ UNCHANGED seeding
    /\ UNCHANGED <<left, T, v>>

\* INIT -> ITERATING
Optimize ==
    /\ Y.state = "INIT"
    /\ op' = "optimize"
    /\ Stepped(Optimizer_start(Y, X), X)

\* compute the total error and linearize: at the initial Values, then at
\* every proposal
Linearize ==
    /\ Y.state = "ITERATING"
    /\ Y.phase = "evaluate"
    /\ op' = "linearize"
    /\ \E lin \in {Graph_linearize(T, v, Y.next)} : Stepped(Optimizer_evaluated(Y, lin), X)

\* solve for delta
Solve ==
    /\ Y.state = "ITERATING"
    /\ Y.phase = "solve"
    /\ op' = "solve"
    /\ \E opt \in {Optimizer_solve(Y)} : Stepped(opt, X)

\* propose Theta_k (+) delta
Propose ==
    /\ Y.state = "ITERATING"
    /\ Y.phase = "propose"
    /\ op' = "propose"
    /\ \E next \in {Values_oplus(T, X, Y.delta)} :
          Stepped([Y EXCEPT !.next = next, !.phase = "evaluate"], X)

GaussNewtonStep ==
    /\ Y.state = "ITERATING"
    /\ Y.phase = "decide"
    /\ Y.kind = "GN"
    /\ op' = "gauss_newton"
    /\ \E r \in {GaussNewton_step(Y)} : Stepped(r.opt, r.values)

LevenMarquardtStep ==
    /\ Y.state = "ITERATING"
    /\ Y.phase = "decide"
    /\ Y.kind = "LM"
    /\ op' = "leven_marquardt"
    /\ \E r \in {LevenMarquardt_step(Y, X)} : Stepped(r.opt, r.values)

NextOptimize ==
    Optimize \/ Linearize \/ Solve \/ Propose \/ GaussNewtonStep \/ LevenMarquardtStep

SpecOptimize == InitOptimize /\ [][NextOptimize]_vars

\* a step of the run is due while the state is not terminal
Running == Y.state \notin Terminal /\ steps' = steps + 1

\* optimize is one call that runs its loop to the end: while the state is not
\* terminal the next step of the run is taken.  Every step of NextOptimize
\* counts in steps, so this is weak fairness of NextOptimize.
SpecOptimizeLive == SpecOptimize /\ WF_steps(Running)

(***************************************************************************)
(* Comparison to the tolerance of the library's tests.                     *)
(***************************************************************************)
\* 1e-10
Tol == FixMk(FALSE, <<0, 100>>)

NumNear(a, b) == FLe(FAbs(FSub(a.re, b.re)), Tol)

VecNear(a, b) == Len(a) = Len(b) /\ \A i \in 1..Len(a) : NumNear(a[i], b[i])

MatNear(a, b) == Len(a) = Len(b) /\ \A i \in 1..Len(a) : VecNear(a[i], b[i])

ElemNear(t, a, b) ==
    CASE t = "SO3" -> VecNear(a.xyzw, b.xyzw)
      [] t = "SE3" -> VecNear(a.rot.xyzw, b.rot.xyzw) /\ VecNear(a.xyz, b.xyz)
      [] OTHER -> VecNear(a, b)

\* the norm of the quaternion is within the tolerance of 1
SO3_is_unit(q) == NumNear(NumSqrt(norm_squared(q.xyzw)), NumOne)

IsElem(t, a) == t = "SO3" => SO3_is_unit(a)

\* the difference a - b, scaled by 1e8
Scaled(a, b) == VecScale(VecScale(VecSub(a, b), Lit(10000, 1)), Lit(10000, 1))

\* the Euclidean norm of a - b is at most 1e-10
NormNear(a, b) == Len(a) = Len(b) /\ FLe(norm_squared(Scaled(a, b)).re, FRat(1, 10000))

(***************************************************************************)
(* Claims                                                                  *)
(***************************************************************************)
\* C1: for every variable type (VectorVar, SO3 on unit quaternions, SE3) the
\* identity is neutral on both sides (the result of identity() composed with
\* X on either side is X), the result of X.inverse() composed with X on either
\* side is the identity, and composition is associative: the result of
\* X.compose(Y) composed with any Z equals X composed with Y.compose(Z); all
\* to within 1e-10 on every stored component.
C1_GroupAxioms ==
    IsElem(T, X) =>
        /\ op = "identity" =>
              /\ ElemNear(T, compose(T, X, out), X)
              /\ ElemNear(T, compose(T, out, X), X)
        /\ op = "inverse" =>
              /\ ElemNear(T, compose(T, X, out), identity(T))
              /\ ElemNear(T, compose(T, out, X), identity(T))
        /\ op = "compose" =>
              \A z \in Elems(T) :
                  ElemNear(T, compose(T, out, z), compose(T, X, compose(T, Y, z)))

C1_Witness ==
    /\ op = "compose"
    /\ T = "SE3"
    /\ X # Y
    /\ ~ElemNear(T, out, X)
    /\ ~ElemNear(T, out, compose(T, Y, X))

\* C2: for every variable X and every tangent vector xi the result of
\* X.oplus(xi).ominus(X) is xi, the norm of the difference being at most
\* 1e-10, in the build that pairs oplus_right with ominus_right and in the
\* build that pairs oplus_left with ominus_left.
C2_RetractionRoundTrip ==
    op = "oplus_ominus" => NormNear(out, xi)

\* C3: the retraction side is fixed by the build and is the same for oplus,
\* ominus and dual.  Without the feature left the result of oplus(xi) is
\* self.compose(exp(xi)), of ominus(y) is log(y.inverse().compose(self)) and
\* of dual(idx) is cast(self).compose(dual_exp(idx)); with it they are
\* exp(xi).compose(self), log(self.compose(y.inverse())) and
\* dual_exp(idx).compose(cast(self)).  No step changes the feature.
C3_SameSide ==
    [][/\ left' = left
       /\ op' = "oplus" =>
             out' = (IF left THEN compose(T, exp(T, xi), X) ELSE compose(T, X, exp(T, xi)))
       /\ op' \in {"ominus", "oplus_ominus"} =>
             out' = (IF left THEN log(T, compose(T, Y, inverse(T, X)))
                     ELSE log(T, compose(T, inverse(T, X), Y)))
       /\ op' = "dual" =>
             out' = (IF left THEN compose(T, Y', cast(T, X))
                     ELSE compose(T, cast(T, X), Y'))]_vars

C3_Witness ==
    /\ op = "dual"
    /\ left
    /\ T = "SE3"
    /\ out = compose(T, Y, cast(T, X))
    /\ out # compose(T, cast(T, X), Y)

\* xi has norm between 1e-8 and 1
InTestRange(t) ==
    /\ FLe(FixMk(FALSE, <<1>>), norm_squared(t).re)
    /\ FLe(norm_squared(t).re, FOne)

\* C4: for every variable type and every tangent vector xi of norm between
\* 1e-8 and 1 the result of log applied to the result of exp(xi) is xi: the
\* norm of the difference is at most 1e-10, on either side of the small-angle
\* thresholds, and for VectorVar the result is xi exactly.
C4_LogOfExp ==
    (op = "exp_log" /\ InTestRange(xi)) =>
        /\ NormNear(out, xi)
        /\ T = "VectorVar" => out = xi

\* C5: the SO3 value stored after any sequence of identity, from_xyzw,
\* from_vec, exp, inverse, compose, oplus and from_matrix is a unit
\* quaternion: the norm of xyzw is within 1e-10 of 1.
C5_UnitStorage ==
    T = "SO3" => SO3_is_unit(X)

\* C6: for unit quaternions X and Y the rotation matrix of the result of
\* X.compose(Y) is the matrix product to_matrix(X) * to_matrix(Y), in this
\* order, to within 1e-10 entry by entry.
C6_ToMatrixHomomorphism ==
    (op = "compose" /\ T = "SO3" /\ SO3_is_unit(X) /\ SO3_is_unit(Y)) =>
        MatNear(SO3_to_matrix(out), MatMul(SO3_to_matrix(X), SO3_to_matrix(Y)))

C6_Witness ==
    /\ op = "compose"
    /\ T = "SO3"
    /\ SO3_is_unit(X)
    /\ SO3_is_unit(Y)
    /\ ~MatNear(MatMul(SO3_to_matrix(X), SO3_to_matrix(Y)),
                MatMul(SO3_to_matrix(Y), SO3_to_matrix(X)))

\* C7: for a unit quaternion X and a point v the result of X.apply(v) is the
\* matrix-vector product to_matrix(X) * v, to within 1e-10 per component.
C7_ApplyIsMatrixProduct ==
    (op = "apply" /\ T = "SO3" /\ SO3_is_unit(X)) =>
        VecNear(out, MatVec(SO3_to_matrix(X), v))

C7_Witness ==
    /\ op = "apply"
    /\ T = "SO3"
    /\ SO3_is_unit(X)
    /\ ~VecNear(out, v)

\* C8: for every SO3 value X, unit or not, the result of X.adjoint() has the
\* same nine entries as X.to_matrix(), exactly.
C8_AdjointIsToMatrix ==
    (op = "adjoint" /\ T = "SO3") => out = SO3_to_matrix(X)

C8_Witness ==
    /\ op = "adjoint"
    /\ T = "SO3"
    /\ ~SO3_is_unit(X)
    /\ out # MatIdentity(3)

\* s = sign(w) as the source takes it: -1 for a negative w, +1 otherwise
C9_Sign(w) == IF w.re.neg THEN NumNeg(NumOne) ELSE NumOne

C9_Taylor(n2, w) ==
    NumSub(NumDiv(NumTwo, w), NumDiv(NumMul(Lit(2, 3), n2), NumMul(w, NumMul(w, w))))

\* s * 2 * atan2(y, s * w) / n
C9_Angle(s, y, n, w) == NumDiv(NumMul(NumMul(s, NumTwo), NumAtan2(y, NumMul(s, w))), n)

C9_Expected(vec, n2, w) ==
    IF NumLt(n2, Lit(1, 1000000)) THEN VecScale(vec, C9_Taylor(n2, w))
    ELSE VecScale(vec, C9_Angle(C9_Sign(w), NumSqrt(n2), NumSqrt(n2), w))

C9_Flipped(q) == SO3_from_xyzw(q.xyzw[1], q.xyzw[2], q.xyzw[3], NumNeg(q.xyzw[4]))

\* C9 (as amended): SO3::log on a quaternion with vector part v, n = |v| and
\* scalar part w returns, when n^2 >= 1e-6, v * s * 2 * atan2(n, s * w) / n
\* with s = -1 for negative w and +1 otherwise, and when n^2 < 1e-6
\* v * (2/w - (2/3) * n^2 / w^3); the result changes sign with w, so that
\* log of (v, -w) is the negative of log of (v, w) for w # 0.
C9_LogFormula ==
    (op \in {"log", "exp_log"} /\ T = "SO3") =>
        /\ VecNear(out, C9_Expected(SubSeq(X.xyzw, 1, 3),
                                    norm_squared(SubSeq(X.xyzw, 1, 3)), X.xyzw[4]))
        /\ X.xyzw[4] # NumZero => VecNear(SO3_log(C9_Flipped(X)), VecNeg(out))

C9_Witness ==
    /\ op = "log"
    /\ T = "SO3"
    /\ X.xyzw[4].re.neg
    /\ ~NumLt(norm_squared(SubSeq(X.xyzw, 1, 3)), Lit(1, 1000000))
    /\ ~VecNear(out, VecZeros(3))

\* the step allowed to a continuous result when w moves by 2e-8
C9_Step == FRat(1, 1000000)

C9_Close(a, b) == \A i \in 1..Len(a) : FLe(FAbs(FSub(a[i].re, b[i].re)), C9_Step)

C9_Claimed(vec, n2, w) ==
    IF NumLt(n2, Lit(1, 1000000)) THEN VecScale(vec, C9_Taylor(n2, w))
    ELSE VecScale(vec, C9_Angle(C9_Sign(w), NumMul(C9_Sign(w), NumSqrt(n2)), NumSqrt(n2), w))

\* C9 (as claimed): for n^2 >= 1e-6 the result is
\* v * s * 2 * atan2(s * n, s * w) / n with s = sign(w), for n^2 < 1e-6 it is
\* v * (2/w - (2/3) * n^2 / w^3), and the result is continuous as w passes
\* through 0: the results for w = 1e-8 and w = -1e-8 are close.
C9_LogAsClaimed ==
    (op \in {"log", "exp_log"} /\ T = "SO3") =>
        /\ VecNear(out, C9_Claimed(SubSeq(X.xyzw, 1, 3),
                                   norm_squared(SubSeq(X.xyzw, 1, 3)), X.xyzw[4]))
        /\ X \in SO3NearHalfTurn => C9_Close(SO3_log(C9_Flipped(X)), out)

\* C10: SE3 orders the tangent vector rotation first.  The rotation of the
\* result of exp(xi) is SO3::exp of xi[0..2], and its translation is xi[3..5]
\* when xi[0..2] is zero and zero when xi[3..5] is zero; rows 0..2 of the
\* result of log are SO3::log of the rotation, and rows 3..5 are the
\* translation when the rotation is the identity; the result of hat(xi) has
\* the skew matrix of xi[0..2] in its upper left block, xi[3..5] in its last
\* column and a zero last row; the result of adjoint has R in blocks (0,0)
\* and (3,3), [t]x * R in block (3,0) and zero in block (0,3).
C10_RotationFirst ==
    T = "SE3" =>
        /\ op = "exp" =>
              /\ out.rot = SO3_exp(SubSeq(xi, 1, 3))
              /\ SubSeq(xi, 1, 3) = VecZeros(3) => out.xyz = SubSeq(xi, 4, 6)
              /\ SubSeq(xi, 4, 6) = VecZeros(3) => out.xyz = VecZeros(3)
        /\ op \in {"log", "exp_log"} =>
              /\ SubSeq(out, 1, 3) = SO3_log(X.rot)
              /\ X.rot = SO3_identity => SubSeq(out, 4, 6) = X.xyz
        /\ op = "hat" =>
              /\ MatBlock3(out, 1, 1) = SO3_hat(SubSeq(xi, 1, 3))
              /\ <<out[1][4], out[2][4], out[3][4]>> = SubSeq(xi, 4, 6)
              /\ out[4] = VecZeros(4)
        /\ op = "adjoint" =>
              /\ MatBlock3(out, 1, 1) = SO3_to_matrix(X.rot)
              /\ MatBlock3(out, 4, 4) = SO3_to_matrix(X.rot)
              /\ MatBlock3(out, 4, 1) = MatMul(SO3_hat(X.xyz), SO3_to_matrix(X.rot))
              /\ MatBlock3(out, 1, 4) = MatZeros(3, 3)

C10_Witness ==
    /\ T = "SE3"
    /\ op = "exp"
    /\ SubSeq(xi, 1, 3) # VecZeros(3)
    /\ SubSeq(xi, 4, 6) # VecZeros(3)
    /\ SubSeq(xi, 1, 3) # SubSeq(xi, 4, 6)
    /\ out.xyz # SubSeq(xi, 4, 6)

\* C11: SE3 acts on points as rot * v + t.  The result of X.apply(v) is
\* to_matrix(rot) * v + xyz; the result of X.compose(Y) applied to any point p
\* is X applied to Y applied to p; and the result of X.inverse() applied to
\* X.apply(p) is p; all to within 1e-10 per component.
C11_GroupAction ==
    T = "SE3" =>
        /\ op = "apply" => VecNear(out, VecAdd(MatVec(SO3_to_matrix(X.rot), v), X.xyz))
        /\ op = "compose" =>
              \A p \in PointSet :
                  VecNear(SE3_apply(out, p), SE3_apply(X, SE3_apply(Y, p)))
        /\ op = "inverse" =>
              \A p \in PointSet : VecNear(SE3_apply(out, SE3_apply(X, p)), p)

C11_Witness ==
    /\ T = "SE3"
    /\ op = "compose"
    /\ X # Y
    /\ \E p \in PointSet :
          /\ ~VecNear(SE3_apply(out, p), SE3_apply(Y, SE3_apply(X, p)))
          /\ ~VecNear(SE3_apply(out, p), SO3_apply(out.rot, p))

\* the unit vector e_j of length n
C12_Unit(n, j) == [k \in 1..n |-> IF k = j THEN FOne ELSE FZero] \o <<>>

\* the seed indices a tangent seed occupies
C12_Seeded(tv, n) == {j \in 1..n : \E k \in 1..Len(tv) : tv[k].eps[j] # FZero}

\* C12: with N the sum of the tangent dimensions, the seed of variable i,
\* built by dual_exp at the offset idx of the dimensions before it, has one
\* component per tangent dimension, component k with real part 0 and
\* derivative the unit vector e_(idx+k) of length N; the index ranges of two
\* variables are disjoint, and once every variable is seeded the ranges
\* cover 0..N-1 exactly.
C12_SeedLayout ==
    /\ \A i \in 1..Len(seeds) :
          /\ Len(seeds[i]) = DIM(kinds[i])
          /\ \A k \in 1..Len(seeds[i]) :
                seeds[i][k] = [re |-> FZero,
                               eps |-> C12_Unit(TotalDim(kinds), Offset(kinds, i) + k)]
    /\ \A i \in 1..Len(seeds) : \A j \in 1..Len(seeds) :
          i # j => C12_Seeded(seeds[i], TotalDim(kinds))
                       \cap C12_Seeded(seeds[j], TotalDim(kinds)) = {}
    /\ (Len(seeds) = Len(kinds)) =>
          UNION {C12_Seeded(seeds[i], TotalDim(kinds)) : i \in 1..Len(seeds)}
              = 1..TotalDim(kinds)

C12_Witness ==
    /\ Len(kinds) >= 3
    /\ Len(seeds) = Len(kinds)
    /\ kinds[1] = "VectorVar"
    /\ kinds[2] = "SE3"
    /\ seeds[3][1].eps[DIM("VectorVar") + DIM("SE3") + 1] = FOne

\* the derivative of a component as a vector of length n: no derivative is zero
C13_Eps(a, n) == IF a.eps = <<>> THEN [k \in 1..n |-> FZero] \o <<>> ELSE a.eps

C13_Same(a, b, n) == a.re = b.re /\ C13_Eps(a, n) = C13_Eps(b, n)

\* C13: the closed form SO3::dual_exp(idx) (x, y, z with real part 0 and
\* derivative 1/2 at idx, idx+1, idx+2; w with real part 1 and no derivative)
\* equals, in the real and in the epsilon part of each component, SO3::exp of
\* the zero-valued tangent vector whose component k carries e_(idx+k).
C13_ClosedForm ==
    (op = "dual_exp" /\ T = "SO3") =>
        /\ \A c \in 1..4 :
              C13_Same(out.xyzw[c], SO3_exp(seeds[Len(seeds)]).xyzw[c], TotalDim(kinds))
        /\ \A c \in 1..3 :
              /\ out.xyzw[c].re = FZero
              /\ out.xyzw[c].eps[Offset(kinds, Len(seeds)) + c] = FRat(1, 2)
        /\ out.xyzw[4] = Real(FOne)

C13_Witness ==
    /\ op = "dual_exp"
    /\ T = "SO3"
    /\ Offset(kinds, Len(seeds)) = DIM("SE3") + DIM("VectorVar")
    /\ SO3_exp(seeds[Len(seeds)]).xyzw[2].eps[Offset(kinds, Len(seeds)) + 2] = FRat(1, 2)

\* the real parts of the components of an SO3 or SE3
C14_Re(t, a) ==
    IF t = "SO3" THEN [c \in 1..4 |-> a.xyzw[c].re] \o <<>>
    ELSE [c \in 1..4 |-> a.rot.xyzw[c].re] \o [c \in 1..3 |-> a.xyz[c].re]

C15_Shape(m) == <<Len(m), {Len(m[i]) : i \in 1..Len(m)}>>

\* C15: whiten_vec(e) = L*e and whiten_mat(J) = L*J with the stored L: both
\* are linear (additive, and homogeneous for the factor 2) in their argument,
\* column j of whiten_mat(J) is whiten_vec of column j of J, the output has
\* the shape of the input, and neither call changes L.
C15_Whitening ==
    [][/\ op' = "whiten_vec" =>
             /\ X' = X
             /\ out' = MatVec(X.sqrt_inf, xi')
             /\ Len(out') = Len(xi')
             /\ \A e \in NoiseVectors(Len(xi')) :
                   VecNear(GaussianNoise_whiten_vec(X', VecAdd(xi', e)),
                           VecAdd(out', GaussianNoise_whiten_vec(X', e)))
             /\ VecNear(GaussianNoise_whiten_vec(X', VecScale(xi', NumTwo)),
                        VecScale(out', NumTwo))
       /\ op' = "whiten_mat" =>
             /\ X' = X
             /\ out' = MatMul(X.sqrt_inf, Y')
             /\ C15_Shape(out') = C15_Shape(Y')
             /\ \A j \in 1..Len(Y'[1]) :
                   MatCol(out', j) = GaussianNoise_whiten_vec(X', MatCol(Y', j))
             /\ \A J \in NoiseMatrices(Len(Y')) :
                   C15_Shape(J) = C15_Shape(Y') =>
                       MatNear(GaussianNoise_whiten_mat(X', MatAdd(Y', J)),
                               MatAdd(out', GaussianNoise_whiten_mat(X', J)))
             /\ MatNear(GaussianNoise_whiten_mat(X', MatScale(Y', NumTwo)),
                        MatScale(out', NumTwo))]_vars

C15_Witness ==
    /\ op = "whiten_mat"
    /\ ~X.panic
    /\ X.sqrt_inf # MatTranspose(X.sqrt_inf)
    /\ out # Y
    /\ MatCol(out, 1) = GaussianNoise_whiten_vec(X, MatCol(Y, 1))

\* C16: from_split_sigma(a, b) and from_split_cov(a, b) build a diagonal L:
\* the first floor(N/2) diagonal entries are 1/a (sigma) or 1/sqrt(a) (cov),
\* the remaining N - floor(N/2) are 1/b or 1/sqrt(b), every off-diagonal
\* entry is zero; for odd N the first group has one element fewer.
C16_SplitDiagonal ==
    /\ op = "from_split_sigma" =>
          /\ ~X.panic
          /\ \A i \in 1..Len(X.sqrt_inf) : \A j \in 1..Len(X.sqrt_inf) :
                X.sqrt_inf[i][j] =
                    (IF i # j THEN NumZero
                     ELSE IF i <= Len(X.sqrt_inf) \div 2 THEN NumDiv(NumOne, xi[1])
                     ELSE NumDiv(NumOne, xi[2]))
    /\ op = "from_split_cov" =>
          /\ ~X.panic
          /\ \A i \in 1..Len(X.sqrt_inf) : \A j \in 1..Len(X.sqrt_inf) :
                X.sqrt_inf[i][j] =
                    (IF i # j THEN NumZero
                     ELSE IF i <= Len(X.sqrt_inf) \div 2 THEN NumDiv(NumOne, NumSqrt(xi[1]))
                     ELSE NumDiv(NumOne, NumSqrt(xi[2])))

C16_Witness ==
    /\ op = "from_split_sigma"
    /\ Len(X.sqrt_inf) = 3
    /\ xi[1] # xi[2]
    /\ X.sqrt_inf[1][1] = NumDiv(NumOne, xi[1])
    /\ X.sqrt_inf[2][2] = NumDiv(NumOne, xi[2])
    /\ X.sqrt_inf[3][3] = X.sqrt_inf[2][2]

C17_Symmetric(m) == \A i \in 1..Len(m) : \A j \in 1..Len(m) : m[i][j] = m[j][i]

\* the leading principal minor of order k <= 2
C17_Minor(m, k) ==
    IF k = 1 THEN m[1][1].re
    ELSE FSub(FMul(m[1][1].re, m[2][2].re), FMul(m[1][2].re, m[2][1].re))

\* symmetric positive definite: symmetric with positive leading principal minors
C17_SPD(m) == C17_Symmetric(m) /\ \A k \in 1..Len(m) : FLt(FZero, C17_Minor(m, k))

\* C17: from_matrix_cov(Sigma) returns no noise model for every Sigma that is
\* not symmetric positive definite (singular, indefinite or non-symmetric),
\* and for a symmetric positive definite Sigma the stored L satisfies
\* L^T * L = Sigma^-1.
C17_CovarianceChecked ==
    op = "from_matrix_cov" =>
        IF C17_SPD(Y)
        THEN /\ ~X.panic
             /\ MatNear(MatMul(MatTranspose(X.sqrt_inf), X.sqrt_inf), Matrix_try_inverse(Y).val)
        ELSE X.panic

\* C18: no core operation aborts the process: from_matrix_cov and
\* from_matrix_inf on a matrix whose inverse or Cholesky factor does not
\* exist report the failure as a value instead of panicking.
C18_NoAbort ==
    op \in {"from_matrix_cov", "from_matrix_inf"} => ~out.panic

\* what the claim makes of the cast of e to ty; no noise stands for a compile error
C19_Cast(e, ty) ==
    IF ty \notin {"std", "sigma", "sig", "cov"} THEN <<>>
    ELSE IF e.kind = "Tuple"
         THEN IF Len(e.elems) # 2 THEN <<>>
              ELSE IF ty = "cov" THEN <<Call("GaussianNoise::from_split_cov", e.elems)>>
              ELSE <<Call("GaussianNoise::from_split_sigma", e.elems)>>
         ELSE IF ty = "cov" THEN <<Call("GaussianNoise::from_scalar_cov", <<e>>)>>
         ELSE <<Call("GaussianNoise::from_scalar_sigma", <<e>>)>>

C19_Noise(e) ==
    IF e.kind = "Cast" THEN C19_Cast(e.elems[1], e.name)
    ELSE IF e.kind = "Infer" THEN <<Path("UnitNoise")>>
    ELSE <<e>>

\* the input with its third item replaced by n
C19_WithNoise(input, n) == [input EXCEPT ![3] = n]

\* C19: fac! maps its third item: e as std, sigma or sig to
\* GaussianNoise::from_scalar_sigma(e); e as cov to from_scalar_cov(e);
\* (a, b) as std, sigma or sig to from_split_sigma(a, b); (a, b) as cov to
\* from_split_cov(a, b); _ to UnitNoise; any other expression is used as it
\* is.  A cast to another name, or the cast of a tuple that has not two
\* elements, is a compile error.  So fac![r, k, s as std] expands as
\* fac![r, k, GaussianNoise::from_scalar_sigma(s)] does.
C19_NoiseMapping ==
    (/\ op \in {"parse", "fac"}
     /\ Len(X) \in 3..4
     /\ X[2].kind \in {"Path", "Call", "Tuple", "Array"}) =>
        /\ IF C19_Noise(X[3]) = <<>> THEN ~Y.ok
           ELSE Y.ok /\ Y.val.noise = C19_Noise(X[3])
        /\ (op = "fac" /\ X[3].kind = "Cast" /\ X[3].name = "std"
                /\ X[3].elems[1].kind # "Tuple") =>
              out = fac(Factor_parse(C19_WithNoise(X,
                            Call("GaussianNoise::from_scalar_sigma", X[3].elems))).val)

C19_Witness ==
    /\ op = "fac"
    /\ Len(X) = 4
    /\ X[3] = Expr("Cast", "std", <<Path("s")>>)
    /\ out[3] = Call("noise", <<Call("GaussianNoise::from_scalar_sigma", <<Path("s")>>)>>)

\* C20: fac! takes its second item as one key, a tuple of keys or an array
\* of keys and expands to FactorBuilder::new{K}(residual, keys...) with K the
\* number of keys given, the keys in the written order; any other form of
\* expression is rejected with 'Expected keys in brackets or parentheses'.
C20_KeysAndArity ==
    (op \in {"parse", "fac"} /\ Len(X) \in 2..4) =>
        /\ X[2].kind \in {"Tuple", "Array"} =>
              /\ Y.ok => Y.val.keys = X[2].elems
              /\ op = "fac" =>
                    out[1] = Call("FactorBuilder::new" \o ToString(Len(X[2].elems)),
                                  <<X[1]>> \o X[2].elems)
        /\ X[2].kind \in {"Path", "Call"} =>
              /\ Y.ok => Y.val.keys = <<X[2]>>
              /\ op = "fac" => out[1] = Call("FactorBuilder::new1", <<X[1], X[2]>>)
        /\ X[2].kind \in {"Path", "Call", "Tuple", "Array"} =>
              Y.ok \/ (Len(X) >= 3 /\ C19_Noise(X[3]) = <<>>)
        /\ X[2].kind \notin {"Path", "Call", "Tuple", "Array"} =>
              ~Y.ok /\ Y.err = "Expected keys in brackets or parentheses"

C20_Witness ==
    /\ op = "fac"
    /\ X[2] = Expr("Array", "", Keys(2))
    /\ out[1] = Call("FactorBuilder::new2", <<X[1], Keys(2)[1], Keys(2)[2]>>)

\* C30: for SO3 and all xi, p in R^3: vee(hat(xi)) = xi, hat(xi) is
\* skew-symmetric with zero diagonal, and hat(xi)*p = hat_swap(p)*xi with
\* hat_swap(p) = -hat(p).
C30_HatVee ==
    (op = "hat" /\ T = "SO3") =>
        /\ SO3_vee(out) = xi
        /\ \A i \in 1..3 : \A j \in 1..3 : out[i][j] = NumNeg(out[j][i])
        /\ \A i \in 1..3 : out[i][i] = NumZero
        /\ \A p \in PointSet :
              /\ VecNear(MatVec(out, p), MatVec(SO3_hat_swap(p), xi))
              /\ SO3_hat_swap(p) = MatNeg(SO3_hat(p))

C30_Witness ==
    /\ op = "hat"
    /\ T = "SO3"
    /\ \A i \in 1..3 : xi[i] # NumZero
    /\ xi[1] # xi[2]
    /\ \E p \in PointSet : ~VecNear(MatVec(out, p), VecZeros(3))

\* the parse went on to the residual, keys, noise and robust kernel
C28_Proceeds ==
    \/ Y.ok
    \/ Y = Err("Expected keys in brackets or parentheses")
    \/ Y = Err("Unknown cast for noise")
    \/ Y = Err("Expected tuple with two elements for split std/cov")

\* C28: fac! with n items yields the syn error 'Expected at least two items'
\* for every n < 2, n = 0 included, and 'Expected at most four items' for
\* every n > 4, and parses residual, keys, noise and robust only for n in
\* 2..4; the rejection is a compile error, never a panic of the macro.
C28_ArgumentCount ==
    op \in {"parse", "fac"} =>
        /\ Len(X) < 2 => Y = Err("Expected at least two items")
        /\ Len(X) > 4 => Y = Err("Expected at most four items")
        /\ C28_Proceeds <=> Len(X) \in 2..4
        /\ Y.ok \/ Y.val # <<"panic">>

\* the calls of the expansion between new{K} and build
C29_Chained == {out[i] : i \in 2..(Len(out) - 1)}

C27_Taggable(generics) ==
    generics \in {<<"type">>, <<"type", "const usize">>, <<"const usize", "type">>}

\* C27: with serde, #[mark] on a Variable impl whose only generic is the
\* datatype, optionally together with a const usize generic, adds the tag of
\* the variable and the tags of PriorResidual<Type> and BetweenResidual<Type>;
\* an impl with no generic is a compile error; without serde the impl is
\* emitted unchanged.
C27_MarkVariable ==
    op = "mark" =>
        /\ ~Y => out = Expansion(<<X>>, <<>>, "")
        /\ (Y /\ X.generics = <<>>) => (out.error # "" /\ out.item = <<>>)
        /\ (Y /\ C27_Taggable(X.generics)) =>
              /\ out.error = ""
              /\ out.item = <<X>>
              /\ \A k \in 1..3 : \E i \in 1..Len(out.tags) : out.tags[i] = tag_all(X.name)[k]
              /\ \E i \in 1..Len(out.tags) : out.tags[i] = "Tagged:" \o X.name

\* C21: every run of optimize, Gauss-Newton or Levenberg-Marquardt, moves
\* INIT -> ITERATING and eventually reaches one of the terminal states
\* CONVERGED, MAX_ITERS, LINSOLVE_FAILED after at most K_max iterations; no
\* other state is reachable, a terminal state is never left, ITERATING never
\* goes back to INIT, and the result is returned exactly at a terminal state.
C21_Step ==
    /\ Y.state = "INIT" => Y'.state = "ITERATING"
    /\ Y.state = "ITERATING" => Y'.state # "INIT" /\ Y'.k \in {Y.k, Y.k + 1}
    /\ Y'.state \in Terminal /\ Y.state = "ITERATING" => Y'.k = Y.k + 1
    /\ Y.state \in Terminal => Y'.state = Y.state

C21_Driver ==
    /\ [](Y.state \in States /\ Y.k <= Y.k_max /\ (out # <<>> <=> Y.state \in Terminal))
    /\ [][C21_Step]_vars
    /\ <>(Y.state \in Terminal)

\* a run ended by the bound on the iterations, after more than one
C21_Witness == Y.state = "MAX_ITERS" /\ Y.k = Y.k_max /\ Y.k > 1

\* an iteration of Levenberg-Marquardt whose proposal was accepted
Accepted == op' = "leven_marquardt" /\ Y'.accepted

\* C23 as stated: every accepted step of Levenberg-Marquardt leaves lambda
\* not larger than it was and resets the step-fail counter.
C23_Shrinks ==
    [][Accepted => ~NumLt(Y.lambda, Y'.lambda) /\ Y'.fails = 0]_vars

\* C23: every accepted step of Levenberg-Marquardt (gain ratio rho > 0) resets
\* the step-fail counter and sets lambda to lambda * max(1/3, 1 - (2 rho - 1)^3),
\* a value from lambda / 3 to below 2 lambda: not larger than the old lambda
\* when rho >= 1/2, and larger than it only when rho < 1/2.
C23_Update ==
    [][Accepted =>
          /\ Y'.fails = 0
          /\ Y'.rho # <<>> /\ NumLt(NumZero, Y'.rho[1])
          /\ ~NumLt(Y'.lambda, NumMul(Y.lambda, Lit(1, 3)))
          /\ NumLt(Y'.lambda, NumMul(NumTwo, Y.lambda))
          /\ NumLt(Y.lambda, Y'.lambda) => NumLt(Y'.rho[1], NumHalf)
          /\ ~NumLt(Y'.rho[1], NumHalf) => ~NumLt(Y.lambda, Y'.lambda)]_vars

\* the first step was accepted with a gain below 1/2 and lambda grew
C23_Witness ==
    /\ Y.kind = "LM" /\ Y.accepted /\ Y.k = 1
    /\ NumLt(Y.rho[1], NumHalf) /\ NumLt(lambda_0, Y.lambda)

\* C24: every accepted step of Levenberg-Marquardt has a positive gain ratio
\* and strictly decreases the total error, and the error is left as it was by
\* every other step, so the errors at the accepted iterates strictly decrease.
C24_Monotone ==
    [][op' = "leven_marquardt" =>
          /\ Accepted => Y'.rho # <<>> /\ NumLt(NumZero, Y'.rho[1]) /\ NumLt(Y'.E, Y.E)
          /\ ~Y'.accepted => Y'.E = Y.E /\ X' = X]_vars

\* a second accepted step in a row
C24_Witness == Y.kind = "LM" /\ Y.accepted /\ Y.k > 1 /\ Y.fails = 0 /\ Y.state = "ITERATING"

\* an iteration of Levenberg-Marquardt whose proposal was rejected
Rejected == op' = "leven_marquardt" /\ Y'.solved /\ ~Y'.accepted

\* C22: in Levenberg-Marquardt a rejected step (gain ratio not positive) leaves
\* the Values exactly as they were before the proposal, multiplies lambda by
\* nu and then doubles nu, which starts at 2; the Values change at accepted
\* steps only, and the Values returned at termination are those Values.
C22_Reject ==
    /\ [](Y.state = "INIT" => Y.nu = NumTwo)
    /\ [](out # <<>> => out[1].val = X)
    /\ [][Rejected =>
            /\ Y'.rho = <<>> \/ ~NumLt(NumZero, Y'.rho[1])
            /\ X' = X
            /\ Y'.lambda = NumMul(Y.lambda, Y.nu) /\ ~NumLt(Y'.lambda, NumMul(NumTwo, Y.lambda))
            /\ Y'.nu = NumAdd(Y.nu, Y.nu)]_vars
    /\ [][X' # X => Y'.accepted]_vars

\* a run ended on a rejected step of gain ratio 0 whose proposal was not
\* the Values, and returned the Values
C22_Witness ==
    /\ Y.kind = "LM" /\ Y.k > 0 /\ Y.solved /\ ~Y.accepted /\ Y.rho # <<>>
    /\ Y.next # X /\ Y.next = Values_oplus(T, X, Y.delta)
    /\ out # <<>> /\ out[1].val = X

\* an iteration whose linear solve failed
SolveFailed == op' = "solve" /\ ~Y'.solved

\* C25: when the linear solve fails in an iteration, Gauss-Newton goes to
\* LINSOLVE_FAILED and returns the failure; Levenberg-Marquardt keeps the
\* Values, grows lambda and goes on iterating, and returns the failure only
\* when lambda has passed lambda_max (the bound K_max on the iterations aside).
C25_Failure ==
    /\ [][SolveFailed /\ Y.kind = "GN" => Y'.state = "LINSOLVE_FAILED"]_vars
    /\ [][SolveFailed /\ Y.kind = "LM" =>
            /\ X' = X
            /\ NumLt(Y.lambda, Y'.lambda)
            /\ Y'.state = "LINSOLVE_FAILED" <=> NumLt(lambda_max, Y'.lambda)
            /\ Y'.state = "ITERATING" \/ NumLt(lambda_max, Y'.lambda) \/ Y'.k >= Y'.k_max]_vars
    /\ [](Y.state = "LINSOLVE_FAILED" =>
            /\ ~Y.solved
            /\ out = <<[ok |-> FALSE, val |-> X, err |-> "LinearSolveFailed"]>>)
    /\ [](out # <<>> /\ Y.state # "LINSOLVE_FAILED" => out[1].err # "LinearSolveFailed")

\* Levenberg-Marquardt returned the failure after more than one failed solve
C25_Witness ==
    /\ Y.kind = "LM" /\ Y.state = "LINSOLVE_FAILED" /\ Y.fails > 1
    /\ NumLt(lambda_max, Y.lambda)

\* equal as the library's tests compare variables: a (-) b within 1e-6 of zero
VariableNear(t, a, b) == NumLt(NormInf(VecCast(ominus(t, a, b))), eps_x)

\* the graph of a single prior on X(0), the only variable
SinglePrior == Len(X) = 1 /\ Len(v) = 1

\* the graph of a prior on X(0) and a between factor on (X(0), X(1))
PriorBetween == Len(X) = 2 /\ Len(v) = 2

\* C26: for Gauss-Newton and Levenberg-Marquardt, VectorVar and SO3, with the
\* default K_max: on a single prior the run ends CONVERGED with X(0) equal to
\* the prior; on a prior and a between factor it ends CONVERGED with X(0)
\* equal to the prior and X(1) to the prior composed with the measurement.
\* Gauss-Newton on a single prior converges in at most 2 iterations.
C26_Optimum ==
    /\ Y.state \in Terminal /\ Y.k_max = K_max /\ (SinglePrior \/ PriorBetween) =>
          /\ Y.state = "CONVERGED" /\ out[1].ok /\ out[1].val = X
          /\ VariableNear(T, X[1], v[1].meas)
          /\ PriorBetween => VariableNear(T, X[2], compose(T, v[1].meas, v[2].meas))
    /\ Y.state \in Terminal /\ Y.kind = "GN" /\ SinglePrior =>
          Y.state = "CONVERGED" /\ Y.k <= 2 /\ VariableNear(T, X[1], v[1].meas)

\* Levenberg-Marquardt converged on an SO3 prior and between factor after
\* moving both variables in several accepted steps
C26_Witness ==
    /\ Y.state = "CONVERGED" /\ Y.kind = "LM" /\ T = "SO3" /\ PriorBetween
    /\ Y.k > 2 /\ Y.accepted
    /\ ~VariableNear(T, X[2], identity(T))

====
